---------------------------- MODULE Spec2Model ----------------------------
(***************************************************************************)
(* A model of the unified completion gateway of any-llm-ts: the streaming  *)
(* decoders of the Ollama, Anthropic, Llamafile and fetch-based OpenAI     *)
(* adapters (async generators over a byte stream), the non-streaming       *)
(* completion call with its abort timer, the top-level completion and      *)
(* completionStream entry points, and wrapError.                           *)
(***************************************************************************)
EXTENDS Integers, Sequences, FiniteSets, TLC

(***************************************************************************)
(* Bounds of the model.                                                    *)
(***************************************************************************)
\* the backend sends at most MaxLines newline-terminated segments
MaxLines == 3

\* through the top-level completionStream, at most MaxWrappedLines segments
MaxWrappedLines == 2

\* the instants Date.now() can return, in order
Instants == {0, 1}

(***************************************************************************)
(* The wire.  The backend's byte stream is a sequence of atoms.  An atom   *)
(* is the newline delimiter, or a piece of a segment: one half of the JSON *)
(* text of a backend event (a JSON document cut anywhere is no JSON        *)
(* document), a run of garbage, or the text [DONE].  The first atom of a   *)
(* server-sent-event segment carries the prefix "data: " (field p).        *)
(***************************************************************************)
NL == [t |-> "nl", e |-> "", h |-> 0, p |-> FALSE]

Json(ev, half, pre) == [t |-> "json", e |-> ev, h |-> half, p |-> pre]

Garbage(pre) == [t |-> "garbage", e |-> "", h |-> 0, p |-> pre]

DoneText(pre) == [t |-> "done", e |-> "", h |-> 0, p |-> pre]

\* the text of one backend segment, without its delimiter
JsonLine(ev, pre) == <<Json(ev, 1, pre), Json(ev, 2, FALSE)>>

(***************************************************************************)
(* Backend events: what JSON.parse returns for a segment.  One record      *)
(* shape serves the three wire formats; a field a format does not use      *)
(* keeps its default (absent: "" / <<>> / FALSE).                          *)
(***************************************************************************)
NoId == <<"", 0>>

E0 ==
  [ type |-> "", id |-> NoId, model |-> "",
    hasMessage |-> FALSE, block |-> "", blockId |-> "", name |-> "",
    hasDelta |-> FALSE, dtype |-> "", text |-> <<>>, partial |-> <<>>,
    stop |-> "", done |-> FALSE, tcs |-> <<>>, finish |-> "",
    hasChoices |-> FALSE, role |-> "" ]

\* JSON.stringify of a backend arguments object
JSONstringify(obj) ==
  CASE obj = "obj1" -> <<"{", "a", "}">>
    [] obj = "obj2" -> <<"{", "b", "}">>
    [] OTHER -> <<"{", "}">>

\* a backend tool call of an Ollama message: id may be absent; arguments is an object
OllamaCall(id, name, args) == [id |-> id, name |-> name, arguments |-> args]

EventOf(ev) ==
  CASE ev = "a_start"  -> [E0 EXCEPT !.type = "message_start", !.hasMessage = TRUE,
                                     !.id = <<"msg", 1>>, !.model = "m1"]
    [] ev = "a_start2" -> [E0 EXCEPT !.type = "message_start", !.hasMessage = TRUE,
                                     !.id = <<"msg", 2>>, !.model = "m2"]
    [] ev = "a_tool"   -> [E0 EXCEPT !.type = "content_block_start", !.block = "tool_use",
                                     !.blockId = "tu1", !.name = "f"]
    [] ev = "a_tool2"  -> [E0 EXCEPT !.type = "content_block_start", !.block = "tool_use",
                                     !.blockId = "tu2", !.name = "g"]
    [] ev = "a_textblock" -> [E0 EXCEPT !.type = "content_block_start", !.block = "text"]
    [] ev = "a_text"   -> [E0 EXCEPT !.type = "content_block_delta", !.hasDelta = TRUE,
                                     !.dtype = "text_delta", !.text = <<"h">>]
    [] ev = "a_notext" -> [E0 EXCEPT !.type = "content_block_delta", !.hasDelta = TRUE,
                                     !.dtype = "text_delta"]
    [] ev = "a_frag1"  -> [E0 EXCEPT !.type = "content_block_delta", !.hasDelta = TRUE,
                                     !.dtype = "input_json_delta", !.partial = <<"{", "a">>]
    [] ev = "a_frag2"  -> [E0 EXCEPT !.type = "content_block_delta", !.hasDelta = TRUE,
                                     !.dtype = "input_json_delta", !.partial = <<"}">>]
    [] ev = "a_frag0"  -> [E0 EXCEPT !.type = "content_block_delta", !.hasDelta = TRUE,
                                     !.dtype = "input_json_delta"]
    [] ev = "a_stop"   -> [E0 EXCEPT !.type = "content_block_stop"]
    [] ev = "a_fragB"  -> [E0 EXCEPT !.type = "content_block_delta", !.hasDelta = TRUE,
                                     !.dtype = "input_json_delta", !.partial = <<"{", "b", "}">>]
    [] ev = "a_stopB"  -> [E0 EXCEPT !.type = "content_block_stop"]
    [] ev = "a_end_tool" -> [E0 EXCEPT !.type = "message_delta", !.hasDelta = TRUE,
                                     !.stop = "tool_use"]
    [] ev = "a_end"    -> [E0 EXCEPT !.type = "message_delta", !.hasDelta = TRUE,
                                     !.stop = "end_turn"]
    [] ev = "a_end_len" -> [E0 EXCEPT !.type = "message_delta", !.hasDelta = TRUE,
                                     !.stop = "max_tokens"]
    [] ev = "a_ping"   -> [E0 EXCEPT !.type = "ping"]
    [] ev = "o_text"   -> [E0 EXCEPT !.hasMessage = TRUE, !.model = "m1", !.text = <<"h">>]
    [] ev = "o_text2"  -> [E0 EXCEPT !.hasMessage = TRUE, !.text = <<"i">>]
    [] ev = "o_empty"  -> [E0 EXCEPT !.hasMessage = TRUE, !.model = "m1"]
    [] ev = "o_done"   -> [E0 EXCEPT !.hasMessage = TRUE, !.model = "m1", !.done = TRUE]
    [] ev = "o_tool"   -> [E0 EXCEPT !.hasMessage = TRUE, !.model = "m1",
                                     !.tcs = <<OllamaCall("", "f", "obj1")>>]
    [] ev = "o_tooldone" -> [E0 EXCEPT !.hasMessage = TRUE, !.model = "m1", !.done = TRUE,
                                     !.tcs = <<OllamaCall("tc9", "f", "obj1"),
                                               OllamaCall("", "g", "obj2")>>]
    [] ev = "s_text"   -> [E0 EXCEPT !.hasChoices = TRUE, !.hasDelta = TRUE,
                                     !.id = <<"cmpl", 1>>, !.model = "m1", !.text = <<"h">>]
    [] ev = "s_text2"  -> [E0 EXCEPT !.hasChoices = TRUE, !.hasDelta = TRUE,
                                     !.text = <<"i">>]
    [] ev = "s_role"   -> [E0 EXCEPT !.hasChoices = TRUE, !.hasDelta = TRUE,
                                     !.id = <<"cmpl", 1>>, !.model = "m1",
                                     !.role = "assistant"]
    [] ev = "s_stop"   -> [E0 EXCEPT !.hasChoices = TRUE, !.hasDelta = TRUE,
                                     !.id = <<"cmpl", 1>>, !.model = "m1",
                                     !.finish = "stop"]
    [] ev = "s_usage"  -> [E0 EXCEPT !.hasChoices = TRUE,
                                     !.id = <<"cmpl", 1>>, !.model = "m1"]
    [] ev = "s_bare"   -> [E0 EXCEPT !.id = <<"cmpl", 1>>, !.model = "m1"]
    [] OTHER -> E0


(***************************************************************************)
(* Text operations of the decoders.                                        *)
(***************************************************************************)
RECURSIVE SplitFrom(_, _, _)
SplitFrom(buf, cur, acc) ==
  IF buf = <<>> THEN Append(acc, cur)
  ELSE IF Head(buf) = NL THEN SplitFrom(Tail(buf), <<>>, Append(acc, cur))
  ELSE SplitFrom(Tail(buf), Append(cur, Head(buf)), acc)

\* buffer.split('\n'): the segments between delimiters, the text after the last
\* delimiter (possibly empty) being the last element
Split(buf) == SplitFrom(buf, <<>>, <<>>)

\* lines.pop() || '': the trailing incomplete segment kept for the next frame
PopEmpty(segs) == <<>>
Pop(segs) == segs[Len(segs)]

\* the complete segments left in lines after the pop
Complete(segs) == SubSeq(segs, 1, Len(segs) - 1)

\* line.startsWith('data: ')
StartsWithData(line) == line # <<>> /\ line[1].p

\* line.slice(6)
Slice6(line) == [line EXCEPT ![1].p = FALSE]

\* !line.trim()
IsBlank(line) == \A i \in 1..Len(line) : line[i].t = "space"

\* JSON.parse(text) succeeds: the text is the two halves of one document, in order
IsJson(text) ==
  /\ Len(text) = 2
  /\ text[1].t = "json" /\ text[2].t = "json"
  /\ text[1].e = text[2].e
  /\ text[1].h = 1 /\ text[2].h = 2
  /\ ~text[1].p /\ ~text[2].p

\* JSON.parse(text), where it succeeds
JSONparse(text) == EventOf(text[1].e)

(***************************************************************************)
(* Canonical chunks.                                                       *)
(***************************************************************************)
ToolCall(id, name, arguments) == [id |-> id, name |-> name, arguments |-> arguments]

Delta(role, hasContent, content, tool_calls) ==
  [role |-> role, hasContent |-> hasContent, content |-> content, tool_calls |-> tool_calls]

EmptyDelta == Delta("", FALSE, <<>>, <<>>)

Chunk(id, model, delta, finish_reason) ==
  [id |-> id, model |-> model, delta |-> delta, finish_reason |-> finish_reason]

(***************************************************************************)
(* What processing one segment does to a suspended generator: the new      *)
(* decoder state s, the chunk it yields (emit, empty or one chunk), ret    *)
(* when it returns from the generator, clock when the chunk's id read      *)
(* Date.now(), after: what runs when the generator is resumed.             *)
(***************************************************************************)
NoEmit(s) == [s |-> s, emit |-> <<>>, ret |-> FALSE, clock |-> FALSE, after |-> ""]

Yield(s, chunk, clock, after) ==
  [s |-> s, emit |-> <<chunk>>, ret |-> FALSE, clock |-> clock, after |-> after]

Return(s) == [s |-> s, emit |-> <<>>, ret |-> TRUE, clock |-> FALSE, after |-> ""]

\* catch { /* Skip invalid JSON */ }
CatchAbort(s) == Return(s)
Catch(s) == NoEmit(s)

NoToolUse == [active |-> FALSE, id |-> "", name |-> "", arguments |-> <<>>]

\* currentToolUse.arguments += event.delta.partial_json
AccumulatePrepend(arguments, partial_json) == partial_json \o arguments
Accumulate(arguments, partial_json) == arguments \o partial_json

\* the stop-reason mapping of the message_delta frame
AnthropicFinishStopOnly(stop_reason) == "stop"
AnthropicFinish(stop_reason) ==
  IF stop_reason = "tool_use" THEN "tool_calls"
  ELSE IF stop_reason = "max_tokens" THEN "length"
  ELSE "stop"

\* messageId || `anthropic-${Date.now()}`
AnthropicId(s, t) == IF s.messageId # NoId THEN s.messageId ELSE <<"anthropic", t>>

AnthropicLine(s, line, t) ==
  IF ~StartsWithData(line) THEN NoEmit(s)
  ELSE IF ~IsJson(Slice6(line)) THEN Catch(s)
  ELSE LET event == JSONparse(Slice6(line)) IN
    IF event.type = "message_start" /\ event.hasMessage THEN
      NoEmit([s EXCEPT !.messageId = event.id, !.model = event.model])
    ELSE IF event.type = "content_block_start" /\ event.block # "" THEN
      IF event.block = "tool_use"
      THEN NoEmit([s EXCEPT !.currentToolUse =
                     [active |-> TRUE, id |-> event.blockId, name |-> event.name,
                      arguments |-> <<>>]])
      ELSE NoEmit(s)
    ELSE IF event.type = "content_block_delta" /\ event.hasDelta THEN
      IF event.dtype = "text_delta" /\ event.text # <<>> THEN
        Yield(s, Chunk(AnthropicId(s, t), s.model,
                       Delta("", TRUE, event.text, <<>>), "null"),
              s.messageId = NoId, "")
      ELSE IF event.dtype = "input_json_delta" /\ event.partial # <<>>
                /\ s.currentToolUse.active THEN
        NoEmit([s EXCEPT !.currentToolUse.arguments = Accumulate(@, event.partial)])
      ELSE NoEmit(s)
    ELSE IF event.type = "content_block_stop" THEN
      IF s.currentToolUse.active THEN
        Yield(s, Chunk(AnthropicId(s, t), s.model,
                       Delta("", FALSE, <<>>,
                             <<ToolCall(s.currentToolUse.id, s.currentToolUse.name,
                                        s.currentToolUse.arguments)>>),
                       "null"),
              s.messageId = NoId, "clearToolUse")
      ELSE NoEmit(s)
    ELSE IF event.type = "message_delta" THEN
      Yield(s, Chunk(AnthropicId(s, t), s.model, EmptyDelta, AnthropicFinish(event.stop)),
            s.messageId = NoId, "")
    ELSE NoEmit(s)

\* tc.id || `call_${i}`, i the zero-based position in the frame's tool_calls
CallId(id, i) ==
  IF id # "" THEN id
  ELSE CASE i = 1 -> "call_0" [] i = 2 -> "call_1" [] OTHER -> "call_n"

OllamaToolCalls(tcs) ==
  [i \in 1..Len(tcs) |->
     ToolCall(CallId(tcs[i].id, i), tcs[i].name, JSONstringify(tcs[i].arguments))]

OllamaLine(s, line, t) ==
  IF IsBlank(line) THEN NoEmit(s)
  ELSE IF ~IsJson(line) THEN Catch(s)
  ELSE LET chunk == JSONparse(line)
           finish == IF chunk.done
                     THEN (IF Len(chunk.tcs) > 0 THEN "tool_calls" ELSE "stop")
                     ELSE "null"
       IN Yield(s, Chunk(s.id, IF chunk.model # "" THEN chunk.model ELSE s.requestModel,
                         Delta("", TRUE, chunk.text, OllamaToolCalls(chunk.tcs)), finish),
                FALSE, "")

\* delta.tool_calls?.map(...) of the OpenAI-compatible wire format
SseToolCalls(tcs) ==
  [i \in 1..Len(tcs) |-> ToolCall(tcs[i].id, tcs[i].name, tcs[i].arguments)]

\* data === '[DONE]'
IsSentinelNever(data) == FALSE
IsSentinel(data) == data = <<DoneText(FALSE)>>

LlamafileLine(s, line, t) ==
  IF ~StartsWithData(line) THEN NoEmit(s)
  ELSE IF IsSentinel(Slice6(line)) THEN Return(s)
  ELSE IF ~IsJson(Slice6(line)) THEN Catch(s)
  ELSE LET chunk == JSONparse(Slice6(line)) IN
    IF chunk.hasChoices /\ chunk.hasDelta THEN
      Yield(s, Chunk(IF chunk.id # NoId THEN chunk.id ELSE <<"llamafile", t>>,
                     IF chunk.model # "" THEN chunk.model ELSE s.requestModel,
                     Delta(chunk.role, chunk.text # <<>>, chunk.text, SseToolCalls(chunk.tcs)),
                     IF chunk.finish # "" THEN chunk.finish ELSE "null"),
            chunk.id = NoId, "")
    ELSE NoEmit(s)

OpenAILine(s, line, t) ==
  IF ~StartsWithData(line) THEN NoEmit(s)
  ELSE IF IsSentinel(Slice6(line)) THEN Return(s)
  ELSE IF ~IsJson(Slice6(line)) THEN Catch(s)
  ELSE LET chunk == JSONparse(Slice6(line)) IN
    IF ~chunk.hasChoices THEN Catch(s)
    ELSE Yield(s, Chunk(chunk.id, chunk.model,
                        Delta(chunk.role, chunk.text # <<>>, chunk.text,
                              SseToolCalls(chunk.tcs)),
                        IF chunk.finish # "" THEN chunk.finish ELSE "null"),
               FALSE, "")

\* the body of `for (const line of lines)` of the adapter the stream belongs to
Line(s, line, t) ==
  CASE s.kind = "anthropic" -> AnthropicLine(s, line, t)
    [] s.kind = "ollama"    -> OllamaLine(s, line, t)
    [] s.kind = "llamafile" -> LlamafileLine(s, line, t)
    [] OTHER                -> OpenAILine(s, line, t)


(***************************************************************************)
(* State.                                                                  *)
(*   stream  one call of an adapter's completionStream: the generator's    *)
(*           locals and where it is suspended                              *)
(*   wire    the bytes the backend sends on this connection                *)
(*   pos     how many of them reader.read() has delivered                  *)
(*   now     the last value Date.now() returned                            *)
(*   call    one call of the top-level completion(request)                 *)
(*   errs    the error objects wrapError was given and returned            *)
(*   providerRegistry  the registry: lowercase name -> adapter constructor *)
(*   providerCache     the adapters createProvider keeps for reuse, by     *)
(*                     lowercase name and configuration                    *)
(*   adapter   one adapter instance the caller keeps: its fields           *)
(*   probe     the isAvailable() or listModels() running on that instance  *)
(*   backend   the backend of that instance: reachable or not, and the     *)
(*             version it reports                                          *)
(*   peer      a second stream, decoded while stream is: its generator,    *)
(*             its wire and how much of it was delivered                   *)
(***************************************************************************)
VARIABLES stream, wire, pos, now, call, errs, providerRegistry, providerCache,
          adapter, probe, peer, backend

vars == <<stream, wire, pos, now, call, errs, providerRegistry, providerCache,
          adapter, probe, peer, backend>>

\* no instance kept, nothing running on it, no second stream
NoAdapter == [kind |-> ""]
NoProbe == [op |-> "", pc |-> "idle", timer |-> "none", elapsed |-> FALSE,
            result |-> "", error |-> ""]
NoPeer == [pc |-> "idle"]
NoBackend == [up |-> FALSE, version |-> "null"]

\* what the actions of a stream leave alone
notStream == <<call, errs, providerRegistry, providerCache, adapter, probe, peer, backend>>

Adapters == {"ollama", "anthropic", "llamafile", "openai"}

\* the error classes of errors.ts, and what else can be thrown
Taxonomy == {"MissingApiKeyError", "UnsupportedProviderError", "ProviderRequestError",
             "RateLimitError", "ProviderUnavailableError", "TimeoutError"}

\* the generator object an adapter's completionStream(request) returns, not yet started;
\* entry "api" when it is the one the top-level completionStream delegates to
NewStream(kind, entry) ==
  [ kind |-> kind, entry |-> entry, pc |-> "start", requestModel |-> "req",
    buffer |-> <<>>, lines |-> <<>>, out |-> <<>>,
    id |-> NoId, messageId |-> NoId, model |-> "req", currentToolUse |-> NoToolUse,
    after |-> "", released |-> 0, abandoned |-> FALSE,
    late |-> FALSE, aborted |-> FALSE, error |-> "" ]

\* finally { reader.releaseLock() }
FinallyNoRelease(s) == s
FinallyTwice(s) == [s EXCEPT !.released = @ + 2]
Finally(s) == [s EXCEPT !.released = @ + 1]

\* an error leaves the generator: the consumer's pending next() rejects with it
Throw(s, error) == [s EXCEPT !.pc = "failed", !.error = error, !.late = FALSE]

\* what the generator does first when it is resumed after a yield
Resume(s) ==
  IF s.after = "clearToolUse"
  THEN [s EXCEPT !.currentToolUse = NoToolUse, !.after = ""]
  ELSE [s EXCEPT !.after = ""]

\* const { done, value } = await reader.read(): a frame is requested from the source
AwaitRead(s) == [s EXCEPT !.pc = "awaitRead"]

\* a loop that does not suspend at a yield: it goes through every line it holds and
\* asks the source for the next frame, with no consumer waiting
RECURSIVE RunLinesEager(_, _)
RunLinesEager(s, t) ==
  IF s.lines = <<>> THEN AwaitRead(s)
  ELSE LET r  == Line(s, Head(s.lines), t)
           s1 == [r.s EXCEPT !.lines = Tail(s.lines)]
       IN IF r.ret THEN Finally([s1 EXCEPT !.pc = "done"])
          ELSE RunLinesEager([s1 EXCEPT !.out = @ \o r.emit], t)

\* the for loop over lines, from the generator's current position to its next
\* suspension: a yield, the next reader.read(), or a return
RECURSIVE RunLines(_, _)
\* what the loop does with the outcome r of the body for the head of s.lines
AfterLine(s, r, t) ==
  IF r.ret THEN Finally([r.s EXCEPT !.lines = Tail(s.lines), !.pc = "done"])
  ELSE IF r.emit # <<>>
    THEN [r.s EXCEPT !.lines = Tail(s.lines), !.out = Append(@, r.emit[1]),
                     !.pc = "yielded", !.after = r.after]
  ELSE RunLines([r.s EXCEPT !.lines = Tail(s.lines)], t)

RunLines(s, t) ==
  IF s.lines = <<>> THEN AwaitRead(s) ELSE AfterLine(s, Line(s, Head(s.lines), t), t)

\* Date.now() was read by the step that ended in this state
ReadClock(s0, s1) ==
  /\ Len(s1.out) > Len(s0.out)
  /\ s1.out[Len(s1.out)].id[1] \in {"anthropic", "llamafile"}

\* buffer += decoder.decode(value); lines = buffer.split('\n'); buffer = lines.pop() || ''
Feed(s, value) ==
  LET segs == Split(s.buffer \o value)
  IN [s EXCEPT !.buffer = Pop(segs), !.lines = Complete(segs), !.late = FALSE]

\* the error a non-OK response is turned into
ErrorResponse(kind, status) ==
  IF kind \in {"anthropic", "openai"}
  THEN (IF status = 429 THEN "RateLimitError"
        ELSE IF status = 401 THEN "MissingApiKeyError"
        ELSE "ProviderRequestError")
  ELSE "ProviderRequestError"

(***************************************************************************)
(* The registry.  A string is a sequence of tokens: a name, one of the     *)
(* separators ":" and "/", or a phrase of an error message.                *)
(***************************************************************************)
Lower(tok) ==
  CASE tok = "Ollama" -> "ollama"
    [] tok = "OpenAI" -> "openai"
    [] tok = "Anthropic" -> "anthropic"
    [] tok = "Too Many Requests" -> "too many requests"
    [] tok = "ECONNREFUSED" -> "econnrefused"
    [] OTHER -> tok

\* str.toLowerCase()
toLowerCase(str) == [i \in 1..Len(str) |-> Lower(str[i])]

\* str.lastIndexOf(ch), counted alike
lastIndexOf(str, ch) ==
  IF \E i \in 1..Len(str) : str[i] = ch
  THEN CHOOSE i \in 1..Len(str) : str[i] = ch /\ \A j \in (i + 1)..Len(str) : str[j] # ch
  ELSE 0

\* str.indexOf(ch), counted from 1; 0 where JavaScript gives -1
indexOf(str, ch) ==
  IF \E i \in 1..Len(str) : str[i] = ch
  THEN CHOOSE i \in 1..Len(str) : str[i] = ch /\ \A j \in 1..(i - 1) : str[j] # ch
  ELSE 0

\* providerRegistry.set(name.toLowerCase(), constructor)
registerProvider(registry, name, constructor) ==
  [k \in DOMAIN registry \cup {toLowerCase(name)} |->
     IF k = toLowerCase(name) THEN constructor ELSE registry[k]]

\* the registry once api.ts is loaded
BuiltinProviders ==
  registerProvider(
    registerProvider(
      registerProvider(
        registerProvider([k \in {} |-> ""], <<"ollama">>, "ollama"),
        <<"openai">>, "openai"),
      <<"anthropic">>, "anthropic"),
    <<"llamafile">>, "llamafile")

\* a lookup that finds every name
hasProviderAny(name) == TRUE

hasProvider(name) == toLowerCase(name) \in DOMAIN providerRegistry

\* Array.from(providerRegistry.keys()), as a set
getRegisteredProviders == DOMAIN providerRegistry

\* providerRegistry.get(name.toLowerCase()); "" for undefined
getProviderConstructor(name) ==
  IF toLowerCase(name) \in DOMAIN providerRegistry
  THEN providerRegistry[toLowerCase(name)]
  ELSE ""

Null == [found |-> FALSE, provider |-> <<>>, model |-> <<>>]

ParsedModel(provider, model) == [found |-> TRUE, provider |-> provider, model |-> model]

parseModelString(model) ==
  LET colonIndex == indexOf(model, ":")
      slashIndex == indexOf(model, "/")
      colonProvider == SubSeq(model, 1, colonIndex - 1)
      colonModelId == SubSeq(model, colonIndex + 1, Len(model))
      potentialProvider == toLowerCase(SubSeq(model, 1, slashIndex - 1))
      slashModelId == SubSeq(model, slashIndex + 1, Len(model))
  IN IF colonIndex # 0 /\ colonProvider # <<>> /\ colonModelId # <<>>
       THEN ParsedModel(toLowerCase(colonProvider), colonModelId)
     ELSE IF slashIndex # 0 /\ hasProvider(potentialProvider) /\ slashModelId # <<>>
       THEN ParsedModel(potentialProvider, slashModelId)
     ELSE Null

\* a value returned, or an error thrown
Returns(value) == [ok |-> TRUE, value |-> value, error |-> ""]
Throws(error) == [ok |-> FALSE, value |-> Null, error |-> error]

\* a resolution that looks for a prefix in the model string first
resolvePrefixFirst(model, provider) ==
  IF parseModelString(model).found THEN Returns(parseModelString(model))
  ELSE IF provider # <<>> THEN Returns(ParsedModel(toLowerCase(provider), model))
  ELSE Throws("Error")

resolveProviderAndModel(model, provider) ==
  IF provider # <<>> THEN Returns(ParsedModel(toLowerCase(provider), model))
  ELSE IF parseModelString(model).found THEN Returns(parseModelString(model))
  ELSE Throws("Error")

\* config.timeout ?? the adapter's default
Timeout(kind, config) ==
  IF config.hasTimeout THEN config.timeout
  ELSE IF kind = "ollama" THEN 120000 ELSE 60000

\* validateConfig(), for the adapters that require an API key
validateConfig(kind, apiKey) ==
  IF kind \in {"anthropic", "openai"} /\ ~apiKey THEN Throws("Error") ELSE Returns(Null)

\* new Constructor(config): init() takes the key from the config or the environment;
\* only the Anthropic adapter validates its configuration
Construct(kind, config, env) ==
  LET apiKey == config.apiKey \/ env
      valid == IF kind = "anthropic" THEN validateConfig(kind, apiKey) ELSE Returns(Null)
  IN IF valid.ok
     THEN Returns([kind |-> kind, apiKey |-> apiKey, timeout |-> Timeout(kind, config),
                   version |-> "null", toolsSupported |-> "null"])
     ELSE valid

\* providerCache as the module is loaded, and after clear()
NoCache == [k \in {} |-> Null]

\* `${normalizedName}:${JSON.stringify(config)}`
CacheKey(normalizedName, config) == <<normalizedName, config>>

\* createProvider(name, config, useCache): what it returns or throws
createProvider(name, config, useCache, env) ==
  LET normalizedName == toLowerCase(name)
      cacheKey == CacheKey(normalizedName, config)
  IN IF useCache /\ cacheKey \in DOMAIN providerCache
       THEN Returns(providerCache[cacheKey])
     ELSE IF normalizedName \notin DOMAIN providerRegistry
       THEN Throws("UnsupportedProviderError")
     ELSE Construct(providerRegistry[normalizedName], config, env)

\* a cache that keeps whatever the call came to, an adapter or not
CacheAfterAnyOutcome(name, config, useCache, provider) ==
  LET cacheKey == CacheKey(toLowerCase(name), config)
  IN IF useCache
     THEN [k \in DOMAIN providerCache \cup {cacheKey} |->
             IF k = cacheKey THEN provider.value ELSE providerCache[k]]
     ELSE providerCache

\* providerCache after createProvider(name, config, useCache) gave provider
CacheAfter(name, config, useCache, provider) ==
  LET cacheKey == CacheKey(toLowerCase(name), config)
  IN IF useCache /\ provider.ok /\ cacheKey \notin DOMAIN providerCache
     THEN [k \in DOMAIN providerCache \cup {cacheKey} |->
             IF k = cacheKey THEN provider.value ELSE providerCache[k]]
     ELSE providerCache


(***************************************************************************)
(* Actions of one stream.                                                  *)
(***************************************************************************)
Times == {t \in Instants : t >= now}

\* completionStream(request) of an adapter, up to its first await
AdapterCompletionStream(s, provider, request) ==
  IF provider.kind = "anthropic" /\ ~provider.apiKey THEN Throw(s, "MissingApiKeyError")
  ELSE IF provider.kind \in {"anthropic", "ollama"} /\ request.badArguments
    THEN Throw(s, "SyntaxError")
  ELSE IF provider.kind = "ollama" /\ request.tools /\ provider.toolsSupported = "false"
    THEN Throw(s, "ProviderRequestError")
  ELSE [s EXCEPT !.pc = "awaitFetch"]

\* completionStream(request) of api.ts, up to the first await of the generator it
\* delegates to with yield*
completionStream(s, request, env) ==
  LET resolved == resolveProviderAndModel(request.model, request.provider)
      config   == [apiKey |-> request.api_key, hasTimeout |-> FALSE, timeout |-> 0]
      provider == createProvider(resolved.value.provider, config, FALSE, env)
  IN IF ~resolved.ok THEN Throw(s, resolved.error)
     ELSE IF ~provider.ok THEN Throw(s, provider.error)
     ELSE AdapterCompletionStream(s, provider.value, request)

\* the requests that reach the adapter of a stream through api.ts, or reach none
StreamRequests(kind) ==
  [model : {<<"gpt">>, <<kind, ":", "gpt">>}, provider : {<<>>, <<kind>>, <<"mistral">>},
   api_key : BOOLEAN, badArguments : BOOLEAN, tools : {FALSE}]

\* the consumer's first next(): the generator starts and runs to its first await
ConsumerFirstNext ==
  /\ stream.pc = "start"
  /\ \E request \in StreamRequests(stream.kind), env \in BOOLEAN :
       stream' = IF stream.entry = "api"
                 THEN completionStream(stream, request, env)
                 ELSE AdapterCompletionStream(stream,
                        [kind |-> stream.kind, apiKey |-> TRUE, timeout |-> 0,
                         version |-> "null", toolsSupported |-> "null"], request)
  /\ UNCHANGED <<wire, pos, now, notStream>>

\* the consumer calls next() holding a chunk: the generator resumes after its yield
ConsumerNext ==
  /\ stream.pc = "yielded"
  /\ \E t \in Times :
       LET s1 == RunLines(Resume(stream), t)
       IN /\ stream' = s1
          /\ now' = IF ReadClock(stream, s1) THEN t ELSE now
  /\ UNCHANGED <<wire, pos, notStream>>

\* fetch resolves with a response
FetchResolves ==
  /\ stream.pc = "awaitFetch"
  /\ \E status \in {200, 429, 401, 500}, body \in BOOLEAN, t \in Times :
       IF status # 200 THEN
         /\ stream' = Throw(stream, ErrorResponse(stream.kind, status))
         /\ now' = now
       ELSE IF ~body THEN
         /\ stream' = Throw(stream, "ProviderRequestError")
         /\ now' = now
       ELSE
         /\ stream' = AwaitRead([stream EXCEPT !.late = FALSE,
                          !.id = IF stream.kind = "ollama" THEN <<"ollama", t>> ELSE NoId])
         /\ now' = IF stream.kind = "ollama" THEN t ELSE now
  /\ UNCHANGED <<wire, pos, notStream>>

\* fetch rejects (the connection is refused, the host is unknown): completionStream
\* has no handler around it
FetchRejects ==
  /\ stream.pc = "awaitFetch"
  /\ stream' = Throw(stream, "TypeError")
  /\ UNCHANGED <<wire, pos, now, notStream>>

\* reader.read() resolves with the next frame: any non-empty run of the bytes not yet
\* delivered
ReadResolves ==
  /\ stream.pc = "awaitRead"
  /\ \E n \in 1..(Len(wire) - pos), t \in Times :
       LET s1 == RunLines(Feed(stream, SubSeq(wire, pos + 1, pos + n)), t)
       IN /\ stream' = s1
          /\ pos' = pos + n
          /\ now' = IF ReadClock(stream, s1) THEN t ELSE now
  /\ UNCHANGED <<wire, notStream>>

\* a decoder that gives what is left in the buffer to the line loop when the body ends
ReadDoneFlush ==
  /\ stream.pc = "awaitRead"
  /\ \E t \in Times : \E r \in {Line(stream, stream.buffer, t)} :
       stream' = Finally([r.s EXCEPT !.pc = "done", !.late = FALSE,
                                     !.out = @ \o r.emit, !.buffer = <<>>])
  /\ UNCHANGED <<wire, pos, now, notStream>>

\* reader.read() resolves with done: the backend closed the body
ReadDone ==
  /\ stream.pc = "awaitRead"
  /\ stream' = Finally([stream EXCEPT !.pc = "done", !.late = FALSE])
  /\ UNCHANGED <<wire, pos, now, notStream>>

\* reader.read() rejects: the connection broke
ReadRejects ==
  /\ stream.pc = "awaitRead"
  /\ stream' = Finally(Throw(stream, "TypeError"))
  /\ UNCHANGED <<wire, pos, now, notStream>>

\* the consumer leaves its for await loop holding a chunk: return() on the generator
\* suspended at a yield runs the finally block; on the generator of api.ts, suspended
\* in yield*, return() is passed on to the adapter's generator
ConsumerReturn ==
  /\ stream.pc = "yielded"
  /\ stream' = Finally([stream EXCEPT !.pc = "done", !.abandoned = TRUE])
  /\ UNCHANGED <<wire, pos, now, notStream>>

\* the configured timeout runs out while the stream waits for the response or for a
\* frame (late: the current wait has lasted longer than the timeout): completionStream
\* arms no timer and passes fetch no signal, nothing reacts
StreamTimeoutElapses ==
  /\ stream.pc \in {"awaitFetch", "awaitRead"}
  /\ ~stream.late
  /\ stream' = [stream EXCEPT !.late = TRUE]
  /\ UNCHANGED <<wire, pos, now, notStream>>

Next ==
  \/ ConsumerFirstNext
  \/ ConsumerNext
  \/ FetchResolves
  \/ FetchRejects
  \/ ReadResolves
  \/ ReadDone
  \/ ReadRejects
  \/ ConsumerReturn
  \/ StreamTimeoutElapses

(***************************************************************************)
(* The backend's segments.                                                 *)
(***************************************************************************)
SseLines(evs) == {JsonLine(ev, TRUE) : ev \in evs}

\* the segments a backend of each wire format sends
Segments(kind) ==
  CASE kind = "anthropic" ->
         SseLines({"a_start", "a_text", "a_end"}) \cup {<<Garbage(TRUE)>>}
    [] kind = "ollama" ->
         {JsonLine(ev, FALSE) : ev \in {"o_text", "o_text2", "o_done"}}
           \cup {<<Garbage(FALSE)>>}
    [] OTHER ->
         SseLines({"s_text", "s_text2"})
           \cup {<<Garbage(TRUE)>>, <<DoneText(TRUE)>>}

RECURSIVE Flatten(_)
Flatten(ls) == IF ls = <<>> THEN <<>> ELSE Head(ls) \o <<NL>> \o Flatten(Tail(ls))

LineSeqs(kind, max) == UNION {[1..n -> Segments(kind)] : n \in 0..max}

\* no top-level call, no wrapError in progress
NoCall == [pc |-> "idle"]
NoErrs == [pc |-> "idle"]

Init ==
  /\ \E kind \in {"ollama", "anthropic", "llamafile"} :
       \/ /\ stream = NewStream(kind, "adapter")
          /\ wire \in {Flatten(ls) : ls \in LineSeqs(kind, MaxLines)}
       \/ /\ stream = NewStream(kind, "api")
          /\ wire \in {Flatten(ls) : ls \in LineSeqs(kind, MaxWrappedLines)}
  /\ pos = 0
  /\ now = 0
  /\ call = NoCall
  /\ errs = NoErrs
  /\ providerRegistry = BuiltinProviders
  /\ providerCache = NoCache
  /\ adapter = NoAdapter
  /\ probe = NoProbe
  /\ peer = NoPeer
  /\ backend = NoBackend

Spec == Init /\ [][Next]_vars


(***************************************************************************)
(* The tool-call streams of the Anthropic backend: a tool-use start frame,  *)
(* then up to MaxLines frames of the incremental tool-call protocol.       *)
(***************************************************************************)
ToolSegments ==
  SseLines({"a_tool", "a_frag1", "a_frag2", "a_stop", "a_end_tool"})

ToolLineSeqs ==
  {<<JsonLine("a_tool", TRUE)>> \o ls :
     ls \in UNION {[1..n -> ToolSegments] : n \in 0..MaxLines}}

InitTool ==
  /\ stream = NewStream("anthropic", "adapter")
  /\ wire \in {Flatten(ls) : ls \in ToolLineSeqs}
  /\ pos = 0
  /\ now = 0
  /\ call = NoCall
  /\ errs = NoErrs
  /\ providerRegistry = BuiltinProviders
  /\ providerCache = NoCache
  /\ adapter = NoAdapter
  /\ probe = NoProbe
  /\ peer = NoPeer
  /\ backend = NoBackend

SpecTool == InitTool /\ [][Next]_vars

(***************************************************************************)
(* What a stream is compared with: the chunks a decoder run over whole     *)
(* segments, one after the other with no framing and no suspension, gives. *)
(***************************************************************************)
\* the bytes delivered so far, and the segments among them whose delimiter has arrived
Delivered == SubSeq(wire, 1, pos)
DeliveredLines == Complete(Split(Delivered))

RECURSIVE DecodeLines(_, _)
DecodeLines(s, ls) ==
  IF ls = <<>> THEN s.out
  ELSE LET r == Line(Resume(s), Head(ls), 0)
       IN IF r.ret THEN s.out
          ELSE DecodeLines([r.s EXCEPT !.out = s.out \o r.emit, !.after = r.after], Tail(ls))

\* decoded from a fresh generator with the identifier this stream took at its start
Decoded(ls) == DecodeLines([NewStream(stream.kind, stream.entry) EXCEPT !.id = stream.id], ls)

\* a chunk without the instant a clock-made identifier was made at
Untimed(c) ==
  IF c.id[1] \in {"anthropic", "llamafile"} THEN [c EXCEPT !.id = <<c.id[1], 0>>] ELSE c

UntimedAll(cs) == [i \in 1..Len(cs) |-> Untimed(cs[i])]

IsPrefix(a, b) == Len(a) <= Len(b) /\ a = SubSeq(b, 1, Len(a))

\* the response body is being read, or has been
Reading == stream.pc \in {"awaitRead", "yielded", "done", "failed"}

\* the generator has gone through every segment it was given: it waits for a frame,
\* or ended because the input ended, returned or failed
Settled ==
  /\ stream.pc \in {"awaitRead", "done", "failed"}
  /\ ~stream.abandoned

\* JSON.parse throws on the segment
Unparseable(kind, line) ==
  IF kind = "ollama" THEN ~IsBlank(line) /\ ~IsJson(line)
  ELSE /\ StartsWithData(line)
       /\ ~(kind \in {"llamafile", "openai"} /\ Slice6(line) = <<DoneText(FALSE)>>)
       /\ ~IsJson(Slice6(line))

Parseable(line) == ~Unparseable(stream.kind, line)

\* C3: a segment that fails to parse yields no chunk and does not end the stream:
\* the chunks of a stream are those of the same stream without its unparseable segments
C3_MalformedSkipped ==
  Settled => UntimedAll(stream.out) = Decoded(SelectSeq(DeliveredLines, Parseable))

C3_Witness ==
  /\ stream.pc = "awaitRead"
  /\ Len(DeliveredLines) = 3
  /\ Parseable(DeliveredLines[1])
  /\ Unparseable(stream.kind, DeliveredLines[2])
  /\ Parseable(DeliveredLines[3])
  /\ Len(stream.out) = 2
  /\ stream.out[1].delta.content # <<>> /\ stream.out[2].delta.content # <<>>

\* C4: every chunk a stream emits has the id and the model of its first chunk
C4_StableIdAndModel ==
  \A i \in 1..Len(stream.out) :
    /\ stream.out[i].id = stream.out[1].id
    /\ stream.out[i].model = stream.out[1].model

\* C5: no chunk comes from a segment whose delimiter has not arrived, and the chunks
\* do not depend on how the bytes were cut into frames: they are always the chunks of
\* the delimited segments delivered so far, in order
C5_FramingIndependent ==
  Reading =>
    /\ IsPrefix(UntimedAll(stream.out), Decoded(DeliveredLines))
    /\ Settled => UntimedAll(stream.out) = Decoded(DeliveredLines)

C5_Witness ==
  /\ stream.pc = "awaitRead"
  /\ stream.buffer # <<>>
  /\ Len(stream.buffer) < Len(Delivered)
  /\ Len(stream.out) >= 2
  /\ UntimedAll(stream.out) = Decoded(DeliveredLines)


(***************************************************************************)
(* Frames of the incremental tool-call protocol, as the backend sent them. *)
(***************************************************************************)
EventOfLine(line) ==
  IF StartsWithData(line) /\ IsJson(Slice6(line)) THEN JSONparse(Slice6(line)) ELSE E0

IsStartFrame(line) ==
  EventOfLine(line).type = "content_block_start" /\ EventOfLine(line).block = "tool_use"

IsFragmentFrame(line) ==
  EventOfLine(line).type = "content_block_delta" /\ EventOfLine(line).dtype = "input_json_delta"

IsStopFrame(line) == EventOfLine(line).type = "content_block_stop"

IsEndToolFrame(line) ==
  EventOfLine(line).type = "message_delta" /\ EventOfLine(line).stop = "tool_use"

\* the fragments' texts, one after the other
RECURSIVE ConcatFragments(_)
ConcatFragments(ls) ==
  IF ls = <<>> THEN <<>> ELSE EventOfLine(Head(ls)).partial \o ConcatFragments(Tail(ls))

CarriesToolCall(c) == c.delta.tool_calls # <<>>

\* the chunks the stream emitted while it processed the m-th delivered segment
EmittedAt(m) ==
  SubSeq(stream.out, Len(Decoded(SubSeq(DeliveredLines, 1, m - 1))) + 1,
                     Len(Decoded(SubSeq(DeliveredLines, 1, m))))

\* segments i+1 .. j-1 are all argument fragments
FragmentsBetween(i, j) == \A m \in (i + 1)..(j - 1) : IsFragmentFrame(DeliveredLines[m])

\* C1: a tool-use start frame, k >= 0 argument fragments and a stop frame give exactly
\* one chunk carrying the tool call, emitted at the stop frame and not earlier, whose
\* arguments are the fragments' texts concatenated in arrival order
C1_ToolCallReassembly ==
  /\ Reading =>
       Len(SelectSeq(stream.out, CarriesToolCall))
         <= Len(SelectSeq(DeliveredLines, IsStopFrame))
  /\ Settled =>
       /\ Len(stream.out) = Len(Decoded(DeliveredLines))
       /\ \A i \in 1..Len(DeliveredLines) :
            IsStartFrame(DeliveredLines[i]) =>
              \A j \in (i + 1)..(Len(DeliveredLines) + 1) :
                FragmentsBetween(i, j) =>
                  /\ \A m \in i..(j - 1) : EmittedAt(m) = <<>>
                  /\ (j <= Len(DeliveredLines) /\ IsStopFrame(DeliveredLines[j])) =>
                       /\ Len(EmittedAt(j)) = 1
                       /\ EmittedAt(j)[1].delta.tool_calls =
                            <<ToolCall(EventOfLine(DeliveredLines[i]).blockId,
                                       EventOfLine(DeliveredLines[i]).name,
                                       ConcatFragments(SubSeq(DeliveredLines, i + 1, j - 1)))>>
                       /\ \A m \in (j + 1)..Len(DeliveredLines) :
                            (\A n \in (j + 1)..m : ~IsStartFrame(DeliveredLines[n])) =>
                              \A c \in 1..Len(EmittedAt(m)) :
                                ~CarriesToolCall(EmittedAt(m)[c])

C1_Witness ==
  /\ Settled
  /\ Len(DeliveredLines) = 4
  /\ IsStartFrame(DeliveredLines[1])
  /\ IsFragmentFrame(DeliveredLines[2])
  /\ IsFragmentFrame(DeliveredLines[3])
  /\ DeliveredLines[2] # DeliveredLines[3]
  /\ IsStopFrame(DeliveredLines[4])
  /\ Len(stream.out) = 1
  /\ stream.out[1].delta.tool_calls = <<ToolCall("tu1", "f", <<"{", "a", "}">>)>>

\* C2 as stated: the chunk that carries the reassembled tool call has finish_reason
\* tool_calls
C2_ToolChunkFinishToolCalls ==
  \A i \in 1..Len(stream.out) :
    CarriesToolCall(stream.out[i]) => stream.out[i].finish_reason = "tool_calls"

\* C2, amended: the chunk that carries the reassembled tool call has finish_reason
\* null; finish_reason tool_calls is carried by the chunks with an empty delta emitted
\* for the message_delta frames whose stop_reason is tool_use, one for each
C2_ToolChunkFinishNull ==
  /\ \A i \in 1..Len(stream.out) :
       /\ CarriesToolCall(stream.out[i]) => stream.out[i].finish_reason = "null"
       /\ stream.out[i].finish_reason = "tool_calls" => stream.out[i].delta = EmptyDelta
  /\ Settled =>
       Len(SelectSeq(stream.out, LAMBDA c : c.finish_reason = "tool_calls"))
         = Len(SelectSeq(DeliveredLines, IsEndToolFrame))

C2_Witness ==
  /\ Settled
  /\ Len(DeliveredLines) = 4
  /\ IsStartFrame(DeliveredLines[1])
  /\ IsFragmentFrame(DeliveredLines[2])
  /\ IsStopFrame(DeliveredLines[3])
  /\ IsEndToolFrame(DeliveredLines[4])
  /\ Len(stream.out) = 2
  /\ CarriesToolCall(stream.out[1]) /\ stream.out[1].finish_reason = "null"
  /\ stream.out[2].delta = EmptyDelta /\ stream.out[2].finish_reason = "tool_calls"

\* C7 as stated: when the configured timeout has run out while the stream waits for
\* its first frame or its next frame, the stream has failed with Timeout and the
\* connection is aborted
C7_StreamTimeout ==
  stream.late =>
    /\ stream.pc = "failed"
    /\ stream.error = "TimeoutError"
    /\ stream.aborted


(***************************************************************************)
(* One call of completion: the top-level completion(request) of api.ts     *)
(* (entry "api"), or completion(request) of an adapter the caller          *)
(* constructed with a configuration (entry "adapter").                     *)
(*   request.badArguments  an assistant message of the request carries a   *)
(*                         tool call whose arguments string is no JSON     *)
(*   request.tools         the request carries tool definitions            *)
(*   request.messages      the shape of the message list; no code of the   *)
(*                         call reads it before the request is sent        *)
(*   env      the adapter's API key variable is set in the environment     *)
(*   timer    the abort timer of the call: none, armed or cleared          *)
(*   elapsed  the configured timeout has run out with the backend          *)
(*            operation unfinished                                         *)
(*   aborted  controller.abort() was called                                *)
(*   refused  the backend refused the connection                           *)
(*   timeoutMs  the timeout a TimeoutError carries                         *)
(*   resolved   what resolveProviderAndModel returned to completion        *)
(*   constructed  an adapter constructor was invoked for the call          *)
(*   model      request.model as the adapter's completion received it      *)
(***************************************************************************)
\* the stop signals of the backends: stop_reason of Anthropic, done_reason of Ollama,
\* finish_reason of the OpenAI API and of what a llamafile serves
StopSignals(kind) ==
  CASE kind = "anthropic" -> {"end_turn", "max_tokens", "stop_sequence", "tool_use"}
    [] kind = "ollama" -> {"stop", "length"}
    [] kind = "openai" -> {"stop", "length", "tool_calls", "content_filter", "function_call"}
    [] OTHER -> {"stop", "length", "tool_calls", "null"}

\* the responses of a backend to a chat request: the stop signal, whether the message
\* has text, and how many tool calls it carries
BackendResponses(kind) ==
  [stop : StopSignals(kind), text : BOOLEAN, tool_calls : 0..1]

\* the message and finish_reason of the one choice of a ChatCompletion
Completed(content, tool_calls, finish_reason) ==
  [content |-> content, tool_calls |-> tool_calls, finish_reason |-> finish_reason]

NoCompletion == Completed("", 0, "")

\* convertResponse of the four adapters
convertResponse(kind, response) ==
  CASE kind = "anthropic" ->
         Completed(IF response.text THEN "text" ELSE "null", response.tool_calls,
                   IF response.stop = "tool_use" THEN "tool_calls"
                   ELSE IF response.stop = "max_tokens" THEN "length"
                   ELSE "stop")
    [] kind = "ollama" ->
         Completed(IF response.text THEN "text" ELSE "null", response.tool_calls,
                   IF response.tool_calls > 0 THEN "tool_calls" ELSE "stop")
    [] OTHER ->
         Completed(IF response.text THEN "text" ELSE "null", response.tool_calls,
                   response.stop)

NewCall(entry, kind, request, config, env) ==
  [ pc |-> "start", entry |-> entry, kind |-> kind, request |-> request,
    config |-> config, env |-> env, timeout |-> 0, status |-> 0,
    timer |-> "none", elapsed |-> FALSE, aborted |-> FALSE, refused |-> FALSE,
    error |-> "", timeoutMs |-> 0, resolved |-> Null, constructed |-> FALSE,
    model |-> <<>>, result |-> NoCompletion ]

\* the promise rejects with the error
Reject(c, error) == [c EXCEPT !.pc = "failed", !.error = error]

\* catch (error) of an adapter's completion, for an error that is none of its own
CatchCall(c, name) ==
  IF name = "AbortError"
  THEN [Reject(c, "TimeoutError") EXCEPT !.timeoutMs = c.timeout]
  ELSE Reject(c, "ProviderRequestError")

\* handleError of the adapter built on the vendor's client library
handleError(c, error) ==
  IF error.hasStatus THEN
    IF error.status = 429 THEN Reject([c EXCEPT !.status = 429], "RateLimitError")
    ELSE IF error.status = 401 THEN Reject([c EXCEPT !.status = 401], "MissingApiKeyError")
    ELSE Reject([c EXCEPT !.status = error.status], "ProviderRequestError")
  ELSE IF error.name = "AbortError"
    THEN [Reject(c, "TimeoutError") EXCEPT !.timeoutMs = c.timeout]
  ELSE Reject(c, "ProviderRequestError")

SdkError(hasStatus, status, name) == [hasStatus |-> hasStatus, status |-> status, name |-> name]

\* provider.completion(request) up to its first await
AdapterCompletion(c, provider, request) ==
  LET c1 == [c EXCEPT !.kind = provider.kind, !.timeout = provider.timeout,
                      !.model = request.model] IN
  CASE provider.kind = "openai" ->
         IF c.request.badArguments
         THEN handleError(c1, SdkError(FALSE, 0, "SyntaxError"))
         ELSE [c1 EXCEPT !.pc = "awaitSdk"]
    [] provider.kind = "anthropic" ->
         IF ~provider.apiKey THEN Reject(c1, "MissingApiKeyError")
         ELSE IF c.request.badArguments THEN Reject(c1, "SyntaxError")
         ELSE [c1 EXCEPT !.pc = "awaitFetch", !.timer = "armed"]
    [] provider.kind = "ollama" ->
         IF c.request.badArguments THEN Reject(c1, "SyntaxError")
         ELSE IF request.tools /\ provider.toolsSupported = "false"
           THEN Reject(c1, "ProviderRequestError")
         ELSE [c1 EXCEPT !.pc = "awaitFetch", !.timer = "armed"]
    [] OTHER -> [c1 EXCEPT !.pc = "awaitFetch", !.timer = "armed"]

\* completion(request) of api.ts
completion(c) ==
  LET resolved == resolveProviderAndModel(c.request.model, c.request.provider)
      config   == [apiKey |-> c.request.api_key, hasTimeout |-> FALSE, timeout |-> 0]
      provider == createProvider(resolved.value.provider, config, FALSE, c.env)
      resolvedRequest == [c.request EXCEPT !.model = resolved.value.model]
      c1       == [c EXCEPT !.resolved = resolved.value,
                            !.constructed =
                               toLowerCase(resolved.value.provider) \in DOMAIN providerRegistry]
  IN IF ~resolved.ok THEN Reject(c, resolved.error)
     ELSE IF ~provider.ok THEN Reject(c1, provider.error)
     ELSE AdapterCompletion(c1, provider.value, resolvedRequest)

\* the call is made
CallStart ==
  /\ call.pc = "start"
  /\ call' = IF call.entry = "api" THEN completion(call)
             ELSE LET provider == Construct(call.kind, call.config, call.env)
                      c1 == [call EXCEPT !.constructed = TRUE]
                  IN IF provider.ok
                     THEN AdapterCompletion(c1, provider.value, call.request)
                     ELSE Reject(c1, provider.error)
  /\ UNCHANGED <<stream, wire, pos, now, errs, providerRegistry, providerCache, adapter, probe, peer, backend>>

\* fetch resolves with the response's status and headers: clearTimeout(timeoutId)
CallFetchResolves ==
  /\ call.pc = "awaitFetch"
  /\ \E status \in {200, 429, 401, 403, 500} :
       call' = [call EXCEPT !.timer = "cleared", !.status = status,
                            !.pc = IF status = 200 THEN "awaitBody" ELSE "awaitErrorBody"]
  /\ UNCHANGED <<stream, wire, pos, now, errs, providerRegistry, providerCache, adapter, probe, peer, backend>>

\* fetch rejects: the connection is refused
CallFetchRejects ==
  /\ call.pc = "awaitFetch"
  /\ call' = CatchCall([call EXCEPT !.refused = TRUE], "TypeError")
  /\ UNCHANGED <<stream, wire, pos, now, errs, providerRegistry, providerCache, adapter, probe, peer, backend>>

\* response.json() resolves and convertResponse returns the completion
CallBodyResolves ==
  /\ call.pc = "awaitBody"
  /\ \E response \in BackendResponses(call.kind) :
       call' = [call EXCEPT !.pc = "done", !.result = convertResponse(call.kind, response)]
  /\ UNCHANGED <<stream, wire, pos, now, errs, providerRegistry, providerCache, adapter, probe, peer, backend>>

\* response.json() rejects: the body is no JSON, or the connection broke
CallBodyRejects ==
  /\ call.pc = "awaitBody"
  /\ \E name \in {"SyntaxError", "TypeError"} : call' = CatchCall(call, name)
  /\ UNCHANGED <<stream, wire, pos, now, errs, providerRegistry, providerCache, adapter, probe, peer, backend>>

\* the body of a non-OK response was read, or could not be: the error is thrown
CallErrorBody ==
  /\ call.pc = "awaitErrorBody"
  /\ \E read \in BOOLEAN :
       call' = IF read \/ call.kind = "anthropic"
               THEN Reject(call, ErrorResponse(call.kind, call.status))
               ELSE CatchCall(call, "TypeError")
  /\ UNCHANGED <<stream, wire, pos, now, errs, providerRegistry, providerCache, adapter, probe, peer, backend>>

\* the configured timeout runs out while the call waits for the backend: the timer,
\* if still armed, calls controller.abort(), fetch rejects with AbortError
CallTimeoutElapses ==
  /\ call.pc \in {"awaitFetch", "awaitBody", "awaitErrorBody"}
  /\ ~call.elapsed
  /\ call' = IF call.timer = "armed"
             THEN CatchCall([call EXCEPT !.elapsed = TRUE, !.aborted = TRUE], "AbortError")
             ELSE [call EXCEPT !.elapsed = TRUE]
  /\ UNCHANGED <<stream, wire, pos, now, errs, providerRegistry, providerCache, adapter, probe, peer, backend>>

\* the vendor's client library resolves with a completion
CallSdkResolves ==
  /\ call.pc = "awaitSdk"
  /\ \E response \in BackendResponses(call.kind) :
       call' = [call EXCEPT !.pc = "done", !.result = convertResponse(call.kind, response)]
  /\ UNCHANGED <<stream, wire, pos, now, errs, providerRegistry, providerCache, adapter, probe, peer, backend>>

\* the vendor's client library rejects
CallSdkRejects ==
  /\ call.pc = "awaitSdk"
  /\ \E error \in {SdkError(TRUE, 429, "Error"), SdkError(TRUE, 401, "Error"),
                   SdkError(TRUE, 403, "Error"), SdkError(TRUE, 500, "Error"), SdkError(FALSE, 0, "AbortError"),
                   SdkError(FALSE, 0, "Error")} :
       call' = handleError(call, error)
  /\ UNCHANGED <<stream, wire, pos, now, errs, providerRegistry, providerCache, adapter, probe, peer, backend>>

NextCall ==
  \/ CallStart
  \/ CallFetchResolves
  \/ CallFetchRejects
  \/ CallBodyResolves
  \/ CallBodyRejects
  \/ CallErrorBody
  \/ CallTimeoutElapses
  \/ CallSdkResolves
  \/ CallSdkRejects

\* the strings a caller gives as model and as provider, of at most MaxModelTokens tokens
MaxModelTokens == 3

ModelTokens == {"anthropic", "Ollama", "gpt", ":", "/"}

ModelStrings == UNION {[1..n -> ModelTokens] : n \in 1..MaxModelTokens}

ProviderStrings == {<<>>, <<"llamafile">>, <<"OpenAI">>, <<"mistral">>}

\* request.messages: well-formed, empty, with tool_call_id on a message whose role is
\* not tool, or with tool_calls on a message whose role is not assistant
MessageLists == {"valid", "empty", "toolCallIdOnUser", "toolCallsOnUser"}

Requests ==
  [model : ModelStrings, provider : ProviderStrings, api_key : BOOLEAN,
   badArguments : BOOLEAN, messages : MessageLists, tools : {FALSE}]

Configs == {[apiKey |-> k, hasTimeout |-> h, timeout |-> IF h THEN 5 ELSE 0] :
              k \in BOOLEAN, h \in BOOLEAN}

NoConfig == [apiKey |-> FALSE, hasTimeout |-> FALSE, timeout |-> 0]

NoStream == [NewStream("", "") EXCEPT !.pc = "idle"]

InitCall ==
  /\ stream = NoStream
  /\ wire = <<>>
  /\ pos = 0
  /\ now = 0
  /\ errs = NoErrs
  /\ providerRegistry = BuiltinProviders
  /\ providerCache = NoCache
  /\ adapter = NoAdapter
  /\ probe = NoProbe
  /\ peer = NoPeer
  /\ backend = NoBackend
  /\ \/ \E request \in Requests, env \in BOOLEAN :
          call = NewCall("api", "", request, NoConfig, env)
     \/ \E kind \in Adapters, config \in Configs, env \in BOOLEAN, bad \in BOOLEAN,
           messages \in MessageLists :
          call = NewCall("adapter", kind,
                         [model |-> <<"gpt">>, provider |-> <<>>, api_key |-> FALSE,
                          badArguments |-> bad, messages |-> messages,
                          tools |-> FALSE],
                         config, env)

SpecCall == InitCall /\ [][NextCall]_vars

\* C8 as stated: when the configured timeout has run out before the backend operation
\* (the request and the reading of the response) finished, the operation is aborted
\* and the call has failed with Timeout carrying the configured timeout
C8_CallTimeout ==
  call.elapsed =>
    /\ call.aborted
    /\ call.pc = "failed"
    /\ call.error = "TimeoutError"
    /\ call.timeoutMs = call.timeout

\* C9 as stated: every failure completion() or completionStream() surfaces is one of
\* the taxonomy's errors
C9_TaxonomyClosure ==
  /\ call.pc = "failed" => call.error \in Taxonomy
  /\ stream.pc = "failed" => stream.error \in Taxonomy


\* C6: once the consumer has abandoned the stream holding a chunk, the reader is
\* released and no further frame is requested from the source or delivered, through
\* an adapter's generator and through the top-level completionStream alike
C6_Cancellation ==
  /\ [](stream.abandoned => (stream.released = 1 /\ stream.pc = "done"))
  /\ [][stream.abandoned => (stream'.pc # "awaitRead" /\ pos' = pos)]_vars

C6_Witness ==
  /\ stream.entry = "api"
  /\ stream.kind = "ollama"
  /\ stream.abandoned
  /\ stream.released = 1
  /\ Len(stream.out) = 1
  /\ pos < Len(wire)


(***************************************************************************)
(* wrapError.  A value that can be thrown is a record: oid tells one       *)
(* object from another, class is its constructor ("string" for a thrown    *)
(* string, "object" for a plain object, "null" for null), hasStatus/status *)
(* its numeric                                                             *)
(* status property, message its message as a sequence of phrases.          *)
(***************************************************************************)
Thrown(oid, class, name, hasStatus, status, message) ==
  [ oid |-> oid, class |-> class, name |-> name, hasStatus |-> hasStatus,
    status |-> status, message |-> message, provider |-> "", statusCode |-> 0,
    timeoutMs |-> 0 ]

\* new <class>(provider, ...): an error of the taxonomy; its status code is kept as
\* statusCode, it has no status property
NewError(oid, class, provider, statusCode, timeoutMs) ==
  [ oid |-> oid, class |-> class, name |-> class, hasStatus |-> FALSE,
    status |-> 0, message |-> <<class>>, provider |-> provider,
    statusCode |-> statusCode, timeoutMs |-> timeoutMs ]

\* error instanceof Error
instanceofError(error) == error.class \notin {"string", "object", "null"}

\* error instanceof AnyLLMError
isAnyLLMError(error) == error.class \in Taxonomy

\* message.includes(phrase)
includes(message, phrase) == \E i \in 1..Len(message) : message[i] = phrase

isOpenAIError(error) == error.class \notin {"string", "null"} /\ error.hasStatus

isConnectionErrorNever(error) == FALSE
isConnectionError(error) ==
  /\ instanceofError(error)
  /\ \E phrase \in {"econnrefused", "fetch failed", "network", "connection"} :
       includes(toLowerCase(error.message), phrase)

\* String(error)
String(error) ==
  CASE error.class = "string" -> error.message
    [] error.class = "null" -> <<"null">>
    [] error.class = "object" -> <<"[object Object]">>
    [] OTHER -> <<error.name, ": ">> \o error.message

\* new ProviderRequestError(provider, message, statusCode)
RequestFailed(oid, provider, message, statusCode) ==
  [NewError(oid, "ProviderRequestError", provider, statusCode, 0) EXCEPT !.message = message]

\* wrapError for a value that is no error of the taxonomy: a new object, oid
NewWrapped(error, provider, oid) ==
  LET message == toLowerCase(error.message) IN
  IF isOpenAIError(error) THEN
    IF error.status = 429 THEN NewError(oid, "RateLimitError", provider, 429, 0)
    ELSE IF error.status \in {401, 403}
      THEN NewError(oid, "MissingApiKeyError", provider, 0, 0)
    ELSE RequestFailed(oid, provider, error.message, error.status)
  ELSE IF isConnectionError(error)
    THEN NewError(oid, "ProviderUnavailableError", provider, 0, 0)
  ELSE IF instanceofError(error) THEN
    IF includes(message, "rate limit") \/ includes(message, "too many requests")
      THEN NewError(oid, "RateLimitError", provider, 429, 0)
    ELSE IF includes(message, "unauthorized") \/ includes(message, "invalid api key")
              \/ includes(message, "authentication")
      THEN NewError(oid, "MissingApiKeyError", provider, 0, 0)
    ELSE IF includes(message, "timeout") \/ includes(message, "timed out")
              \/ error.name = "AbortError"
      THEN NewError(oid, "TimeoutError", provider, 0, 0)
    ELSE RequestFailed(oid, provider, error.message, 0)
  ELSE RequestFailed(oid, provider, String(error), 0)

wrapErrorAlwaysNew(error, provider, oid) == NewWrapped(error, provider, oid)
wrapError(error, provider, oid) ==
  IF isAnyLLMError(error) THEN error ELSE NewWrapped(error, provider, oid)

\* the values wrapError is given; a message has at most MaxPhrases phrases
MaxPhrases == 2

Phrases == {"rate limit", "Too Many Requests", "unauthorized", "timed out",
            "ECONNREFUSED", "boom"}

Messages == UNION {[1..n -> Phrases] : n \in 0..MaxPhrases}

Thrownables ==
  {NewError(1, class, "ollama", 0, 0) : class \in Taxonomy}
    \cup {Thrown(1, "Error", name, FALSE, 0, message) :
            name \in {"Error", "AbortError"}, message \in Messages}
    \cup {Thrown(1, class, name, TRUE, status, message) :
            class \in {"Error", "object"}, name \in {"Error", "AbortError"},
            status \in {429, 401, 403, 500}, message \in Messages}
    \cup {Thrown(1, "object", "", FALSE, 0, <<"boom">>)}
    \cup {Thrown(1, "string", "", FALSE, 0, <<"boom">>)}
    \cup {Thrown(1, "null", "", FALSE, 0, <<>>)}

\* wrapError(x, p), then wrapError of its result with q
InitErr ==
  /\ stream = NoStream
  /\ wire = <<>>
  /\ pos = 0
  /\ now = 0
  /\ call = NoCall
  /\ providerRegistry = BuiltinProviders
  /\ providerCache = NoCache
  /\ adapter = NoAdapter
  /\ probe = NoProbe
  /\ peer = NoPeer
  /\ backend = NoBackend
  /\ \E x \in Thrownables, p \in {"openai", "ollama"}, q \in {"openai", "ollama"} :
       errs = [pc |-> "start", x |-> x, p |-> p, q |-> q, objects |-> 1,
               first |-> x, second |-> x]

WrapOnce ==
  /\ errs.pc = "start"
  /\ LET r == wrapError(errs.x, errs.p, errs.objects + 1)
     IN errs' = [errs EXCEPT !.pc = "once", !.first = r,
                             !.objects = IF r.oid > @ THEN r.oid ELSE @]
  /\ UNCHANGED <<stream, wire, pos, now, call, providerRegistry, providerCache, adapter, probe, peer, backend>>

WrapTwice ==
  /\ errs.pc = "once"
  /\ LET r == wrapError(errs.first, errs.q, errs.objects + 1)
     IN errs' = [errs EXCEPT !.pc = "twice", !.second = r,
                             !.objects = IF r.oid > @ THEN r.oid ELSE @]
  /\ UNCHANGED <<stream, wire, pos, now, call, providerRegistry, providerCache, adapter, probe, peer, backend>>

NextErr ==
  \/ WrapOnce
  \/ WrapTwice

SpecErr == InitErr /\ [][NextErr]_vars

\* C10: wrapError returns an error of the taxonomy as the same object, unchanged, so
\* wrapError(wrapError(x, p), q) is the same object as wrapError(x, p)
C10_WrapErrorIdempotent ==
  /\ (errs.pc \in {"once", "twice"} /\ isAnyLLMError(errs.x)) => errs.first = errs.x
  /\ errs.pc = "twice" => errs.second = errs.first

C10_Witness ==
  /\ errs.pc = "twice"
  /\ ~isAnyLLMError(errs.x)
  /\ errs.p # errs.q
  /\ errs.first.oid = 2
  /\ errs.first.provider = errs.p
  /\ errs.second = errs.first


(***************************************************************************)
(* The signals of a failure, read off the value given to wrapError.        *)
(***************************************************************************)
WrapDone == errs.pc \in {"once", "twice"}

StatusSignal(x) == x.class \notin {"string", "null"} /\ x.hasStatus

ConnectionSignal(x) ==
  instanceofError(x) /\ includes(toLowerCase(x.message), "econnrefused")

AbortSignal(x) == instanceofError(x) /\ x.name = "AbortError"

RateLimitMessage(x) ==
  /\ instanceofError(x)
  /\ includes(toLowerCase(x.message), "rate limit")
       \/ includes(toLowerCase(x.message), "too many requests")

CredentialMessage(x) == instanceofError(x) /\ includes(toLowerCase(x.message), "unauthorized")

TimeoutMessage(x) == instanceofError(x) /\ includes(toLowerCase(x.message), "timed out")

\* the message says nothing the mapping looks for
PlainMessage(x) == \A i \in 1..Len(x.message) : x.message[i] = "boom"

KindInStatedOrder(x) ==
  IF isAnyLLMError(x) THEN x.class
  ELSE IF ConnectionSignal(x) THEN "ProviderUnavailableError"
  ELSE IF (StatusSignal(x) /\ x.status = 429) \/ RateLimitMessage(x) THEN "RateLimitError"
  ELSE IF (StatusSignal(x) /\ x.status \in {401, 403}) \/ CredentialMessage(x)
    THEN "MissingApiKeyError"
  ELSE IF AbortSignal(x) \/ TimeoutMessage(x) THEN "TimeoutError"
  ELSE "ProviderRequestError"

\* C12 as stated: when a failure matches several rules, wrapError returns the kind of
\* the first matching rule in the order pass-through, Unavailable, RateLimited,
\* MissingCredential, Timeout, RequestFailed with status, RequestFailed
C12_StatedPriorityOrder ==
  WrapDone => errs.first.class = KindInStatedOrder(errs.x)


\* C13 as stated: whichever adapter made the call, a backend response with status 429
\* surfaces as RateLimited, one with status 401 or 403 as MissingCredential, and a
\* refused connection as Unavailable
C13_AdaptersMapAlike ==
  call.pc = "failed" =>
    /\ call.status = 429 => call.error = "RateLimitError"
    /\ call.status \in {401, 403} => call.error = "MissingApiKeyError"
    /\ call.refused => call.error = "ProviderUnavailableError"


\* the backend has been called
NetworkCalled ==
  call.pc \in {"awaitFetch", "awaitSdk", "awaitBody", "awaitErrorBody", "done"}
    \/ call.timer # "none" \/ call.status # 0

\* C14 as stated: a request whose messages list is empty, or has tool_call_id on a
\* non-tool message, or tool_calls on a non-assistant message, is rejected before any
\* network call, whichever adapter it resolves to
C14_ValidatedBeforeNetwork ==
  call.request.messages # "valid" => ~NetworkCalled


(***************************************************************************)
(* Resolution of the model string of a call.                               *)
(***************************************************************************)
\* the call came through completion() of api.ts and has run to its first await or
\* to its failure
Resolving == call.pc \notin {"idle", "start"} /\ call.entry = "api"

\* the adapter's completion was called and has sent its request
AdapterCalled == call.pc \in {"awaitFetch", "awaitSdk"}

\* the places of ch in str
Places(str, ch) == {i \in 1..Len(str) : str[i] = ch}

\* the text left and right of the first ch of str
First(str, ch) == CHOOSE i \in Places(str, ch) : \A j \in Places(str, ch) : i <= j
LeftOf(str, ch) == SubSeq(str, 1, First(str, ch) - 1)
RightOf(str, ch) == SubSeq(str, First(str, ch) + 1, Len(str))

\* the call names no provider and its model string is resolved at its first colon
ResolvedAtColon ==
  /\ call.resolved = ParsedModel(toLowerCase(LeftOf(call.request.model, ":")),
                                 RightOf(call.request.model, ":"))
  /\ AdapterCalled => call.model = RightOf(call.request.model, ":")

\* C15 as stated: with no explicit provider, a model string containing ':' resolves to
\* the provider left of the first ':' and to everything right of it as the model id,
\* and the adapter completion() calls receives that model id
C15_ColonResolution ==
  (Resolving /\ call.request.provider = <<>> /\ Places(call.request.model, ":") # {})
    => ResolvedAtColon

\* C15 amended: with no explicit provider, a model string with text on both sides of
\* its first ':' resolves to the provider left of that ':' and to everything right of
\* it, further ':' included, as the model id, and the adapter completion() calls
\* receives that model id without the provider prefix
C15_ColonResolutionNonEmpty ==
  (/\ Resolving
   /\ call.request.provider = <<>>
   /\ Places(call.request.model, ":") # {}
   /\ LeftOf(call.request.model, ":") # <<>>
   /\ RightOf(call.request.model, ":") # <<>>)
    => ResolvedAtColon

\* a call whose model id has a second ':' has reached the adapter
C15_Witness ==
  /\ Resolving /\ AdapterCalled
  /\ call.request.provider = <<>>
  /\ call.request.model = <<"Ollama", ":", ":">>
  /\ call.kind = "ollama"
  /\ call.model = <<":">>


(***************************************************************************)
(* The registry and the cache under registrations, adapter creations and   *)
(* cache clearings made around one call of completion(), with no API key   *)
(* in the environment.                                                     *)
(***************************************************************************)
\* the names and constructors the caller registers; the names and configurations
\* it creates adapters with
RegNames == {<<"gpt">>, <<"OpenAI">>}
RegConstructors == {"llamafile", "anthropic"}
CreateNames == {<<"gpt">>, <<"openai">>, <<"OpenAI">>, <<"mistral">>}

\* registerProvider(name, constructor)
RegisterProvider(name, constructor) ==
  /\ providerRegistry' = registerProvider(providerRegistry, name, constructor)
  /\ UNCHANGED <<stream, wire, pos, now, call, errs, providerCache, adapter, probe, peer, backend>>

\* createProvider(name, config, useCache), in the environment of the call
CreateProvider(name, config, useCache) ==
  /\ providerCache' =
       CacheAfter(name, config, useCache, createProvider(name, config, useCache, call.env))
  /\ UNCHANGED <<stream, wire, pos, now, call, errs, providerRegistry, adapter, probe, peer, backend>>

\* clearProviderCache()
ClearProviderCache ==
  /\ providerCache' = NoCache
  /\ UNCHANGED <<stream, wire, pos, now, call, errs, providerRegistry, adapter, probe, peer, backend>>

NextReg ==
  \/ \E name \in RegNames, constructor \in RegConstructors :
       RegisterProvider(name, constructor)
  \/ \E name \in CreateNames, useCache \in BOOLEAN :
       CreateProvider(name, NoConfig, useCache)
  \/ ClearProviderCache
  \/ CallStart

\* the requests of the call: well-formed, with no key of their own, their model
\* strings of at most MaxModelTokens tokens
RegModelStrings ==
  UNION {[1..n -> {"OpenAI", "gpt", ":", "/"}] : n \in 1..MaxModelTokens}

RegRequests ==
  [model : RegModelStrings, provider : {<<>>, <<"OpenAI">>, <<"mistral">>},
   api_key : {FALSE}, badArguments : {FALSE}, messages : {"valid"}, tools : {FALSE}]

InitReg ==
  /\ stream = NoStream
  /\ wire = <<>>
  /\ pos = 0
  /\ now = 0
  /\ errs = NoErrs
  /\ providerRegistry = BuiltinProviders
  /\ providerCache = NoCache
  /\ adapter = NoAdapter
  /\ probe = NoProbe
  /\ peer = NoPeer
  /\ backend = NoBackend
  /\ \E request \in RegRequests :
       call = NewCall("api", "", request, NoConfig, FALSE)

SpecReg == InitReg /\ [][NextReg]_vars


\* the step is completion() called with no explicit provider and a model string
\* that has a '/' and no ':'
SlashCall ==
  /\ call.pc = "start" /\ call.entry = "api"
  /\ call'.pc # "start"
  /\ call.request.provider = <<>>
  /\ Places(call.request.model, ":") = {}
  /\ Places(call.request.model, "/") # {}

\* resolution failed: completion threw the resolution error and constructed no adapter
ResolutionFailed(c) ==
  /\ c.pc = "failed" /\ c.error = "Error"
  /\ ~c.resolved.found
  /\ ~c.constructed

\* C16: with no explicit provider and no ':' in the model string, 'left/right'
\* resolves to the provider left (and the model id right) only if left is, whatever
\* its casing, a name registered when the call is made, and does so whenever right is
\* not empty; otherwise resolution fails and no adapter is constructed
C16_SlashResolution ==
  [][SlashCall =>
       LET left  == toLowerCase(LeftOf(call.request.model, "/"))
           right == RightOf(call.request.model, "/")
       IN IF left \in DOMAIN providerRegistry /\ right # <<>>
          THEN call'.resolved = ParsedModel(left, right)
          ELSE ResolutionFailed(call')]_vars

\* "gpt/gpt" has resolved to the provider gpt, registered before the call was made
C16_Witness ==
  /\ Resolving /\ AdapterCalled
  /\ call.request.provider = <<>>
  /\ call.request.model = <<"gpt", "/", "gpt">>
  /\ call.resolved = ParsedModel(<<"gpt">>, <<"gpt">>)
  /\ call.model = <<"gpt">>


\* C17: when completion() is given a provider with the model string, resolution
\* returns that provider lowercased and the whole model string as the model id,
\* whatever ':' or '/' the string holds and whatever the registry holds; the adapter,
\* where one is called, receives the whole string
C17_ExplicitProviderWins ==
  (Resolving /\ call.request.provider # <<>>) =>
    /\ call.resolved = ParsedModel(toLowerCase(call.request.provider), call.request.model)
    /\ AdapterCalled => call.model = call.request.model

\* a call naming OpenAI with the model string "gpt:gpt" has reached the adapter
\* registered in place of the built-in one, with the whole string as its model
C17_Witness ==
  /\ Resolving /\ AdapterCalled
  /\ call.request.provider = <<"OpenAI">>
  /\ call.request.model = <<"gpt", ":", "gpt">>
  /\ call.resolved = ParsedModel(<<"openai">>, <<"gpt", ":", "gpt">>)
  /\ call.kind = "llamafile"
  /\ "gpt" \in {key[1] : key \in DOMAIN providerRegistry}
  /\ call.model = <<"gpt", ":", "gpt">>


\* C18 as stated: after any registrations, creations and cache clearings,
\* createProvider(name, config, useCache = true) returns an adapter built by the
\* constructor now registered under name, and fails exactly when the call without
\* the cache fails
C18_CacheTransparency ==
  \A name \in CreateNames :
    LET cached   == createProvider(name, NoConfig, TRUE, call.env)
        uncached == createProvider(name, NoConfig, FALSE, call.env)
    IN /\ cached.ok = uncached.ok
       /\ cached.ok => cached.value.kind = getProviderConstructor(name)


\* the step is a call of registerProvider and nothing else
RegistrationStep ==
  /\ \E name \in RegNames, constructor \in RegConstructors :
       providerRegistry' = registerProvider(providerRegistry, name, constructor)
  /\ UNCHANGED <<call, providerCache>>

\* createProvider on a name that is not registered throws UnsupportedProviderError
\* and leaves the cache as it is
UnregisteredCreateFails ==
  \A name \in CreateNames, useCache \in BOOLEAN :
    ~hasProvider(name) =>
      LET provider == createProvider(name, NoConfig, useCache, call.env)
      IN /\ provider = Throws("UnsupportedProviderError")
         /\ CacheAfter(name, NoConfig, useCache, provider) = providerCache

Casings(name) ==
  {other \in CreateNames \cup RegNames : toLowerCase(other) = toLowerCase(name)}

\* under every casing of name the lookups find constructor, and createProvider,
\* with the cache or without, gives what constructor builds
FoundUnderEveryCasing(name, constructor) ==
  \A other \in Casings(name) :
    /\ hasProvider(other)
    /\ getProviderConstructor(other) = constructor
    /\ \A useCache \in BOOLEAN :
         createProvider(other, NoConfig, useCache, call.env)
           = Construct(constructor, NoConfig, call.env)

\* C20 as stated: every key getRegisteredProviders returns is lowercase, and after
\* registerProvider(n, C), be it the first registration of n or a later one under
\* another casing, hasProvider, getProviderConstructor and createProvider find C
\* under every casing of n
C20_CaseInsensitiveLookup ==
  /\ [](\A key \in getRegisteredProviders : toLowerCase(key) = key)
  /\ [][\A name \in RegNames, constructor \in RegConstructors :
          (/\ providerRegistry' = registerProvider(providerRegistry, name, constructor)
           /\ UNCHANGED <<call, providerCache>>)
            => FoundUnderEveryCasing(name, constructor)']_vars


(***************************************************************************)
(* One adapter instance the caller keeps and runs operations on:           *)
(* isAvailable(), listModels() and completion(request), one after the      *)
(* other or overlapping, against one backend.                              *)
(*   adapter.antKey          the API key starts with 'sk-ant-'             *)
(*   adapter.version         this.version of the Ollama adapter            *)
(*   adapter.toolsSupported  this.toolsSupported of the Ollama adapter     *)
(*   probe.op, probe.pc      the operation and where it waits              *)
(*   probe.timer             its 5000 ms abort timer: none, armed, cleared *)
(*   probe.elapsed           5000 ms have passed with it unfinished        *)
(*   probe.result            what it resolved with                         *)
(*   probe.error             what it rejected with                         *)
(***************************************************************************)
MINIMUM_TOOL_VERSION == "0.3.0"

\* the versions a backend reports
BackendVersions == {"0.2.9", "0.3.0", "v0.12"}

\* a.replace(/^v/, '').split('.').map(p => parseInt(p, 10) || 0)
Parts(a) ==
  CASE a = "0.2.9" -> <<0, 2, 9>>
    [] a = "0.3.0" -> <<0, 3, 0>>
    [] a = "v0.12" -> <<0, 12>>
    [] OTHER -> <<0>>

\* parts[i] || 0
PartAt(parts, i) == IF i <= Len(parts) THEN parts[i] ELSE 0

RECURSIVE CompareFrom(_, _, _, _)
CompareFrom(partsA, partsB, i, maxLen) ==
  IF i > maxLen THEN 0
  ELSE IF PartAt(partsA, i) # PartAt(partsB, i)
    THEN PartAt(partsA, i) - PartAt(partsB, i)
  ELSE CompareFrom(partsA, partsB, i + 1, maxLen)

compareVersions(a, b) ==
  LET partsA == Parts(a)
      partsB == Parts(b)
      maxLen == IF Len(partsA) >= Len(partsB) THEN Len(partsA) ELSE Len(partsB)
  IN CompareFrom(partsA, partsB, 1, maxLen)

\* SUPPORTS_LIST_MODELS; "base" is a subclass that keeps the defaults of BaseProvider
SUPPORTS_LIST_MODELS(kind) == kind \in {"ollama", "llamafile", "openai"}

NewProbe(op) ==
  [op |-> op, pc |-> "start", timer |-> "none", elapsed |-> FALSE,
   result |-> "", error |-> ""]

Resolve(p, result) == [p EXCEPT !.pc = "done", !.result = result]
Fail(p, error) == [p EXCEPT !.pc = "failed", !.error = error]

\* "true" / "false" of a boolean
Bool(b) == IF b THEN "true" ELSE "false"

\* catch of the operation, for an error that is none of its own
CatchProbe(p) ==
  IF p.op = "isAvailable" THEN Resolve(p, "false")
  ELSE Fail(p, "ProviderUnavailableError")

\* this.version is set: toolsSupported follows, and isAvailable returns true
VersionKnown(a, version) ==
  [a EXCEPT !.version = version,
            !.toolsSupported =
               IF version # "null"
               THEN Bool(compareVersions(version, MINIMUM_TOOL_VERSION) >= 0)
               ELSE "true"]

\* isAvailable() up to its first await
isAvailable(a) ==
  CASE a.kind = "anthropic" ->
         Resolve(NewProbe("isAvailable"), Bool(a.apiKey /\ a.antKey))
    [] a.kind = "openai" ->
         IF ~a.apiKey THEN Resolve(NewProbe("isAvailable"), "false")
         ELSE [NewProbe("isAvailable") EXCEPT !.pc = "awaitSdk"]
    [] OTHER -> [NewProbe("isAvailable") EXCEPT !.pc = "awaitFetch", !.timer = "armed"]

\* listModels() up to its first await
listModels(a) ==
  CASE a.kind = "base" ->
         IF ~SUPPORTS_LIST_MODELS(a.kind) THEN Resolve(NewProbe("listModels"), "empty")
         ELSE Fail(NewProbe("listModels"), "Error")
    [] a.kind = "anthropic" -> Resolve(NewProbe("listModels"), "some")
    [] a.kind = "openai" -> [NewProbe("listModels") EXCEPT !.pc = "awaitSdk"]
    [] OTHER -> [NewProbe("listModels") EXCEPT !.pc = "awaitFetch", !.timer = "armed"]

ProbeIdle == probe.pc \in {"idle", "done", "failed"}

IsAvailable ==
  /\ ProbeIdle
  /\ adapter.kind # "base"
  /\ probe' = isAvailable(adapter)
  /\ UNCHANGED <<stream, wire, pos, now, call, errs, providerRegistry, providerCache,
                 adapter, peer, backend>>

ListModels ==
  /\ ProbeIdle
  /\ probe' = listModels(adapter)
  /\ UNCHANGED <<stream, wire, pos, now, call, errs, providerRegistry, providerCache,
                 adapter, peer, backend>>

\* fetch of the operation resolves with a status: clearTimeout(timeoutId)
ProbeFetchResolves ==
  /\ probe.pc = "awaitFetch"
  /\ backend.up
  /\ \E ok \in BOOLEAN :
       LET p == [probe EXCEPT !.timer = "cleared"] IN
       probe' = IF probe.op = "listModels"
                THEN IF ok THEN [p EXCEPT !.pc = "awaitJson"]
                     ELSE Fail(p, "ProviderRequestError")
                ELSE IF adapter.kind = "llamafile" THEN Resolve(p, Bool(ok))
                ELSE IF ok THEN [p EXCEPT !.pc = "awaitVersion", !.timer = "armed"]
                ELSE Resolve(p, "false")
  /\ UNCHANGED <<stream, wire, pos, now, call, errs, providerRegistry, providerCache,
                 adapter, peer, backend>>

\* fetch of the operation rejects: the connection is refused or broke
ProbeFetchRejects ==
  /\ probe.pc = "awaitFetch"
  /\ probe' = CatchProbe(probe)
  /\ UNCHANGED <<stream, wire, pos, now, call, errs, providerRegistry, providerCache,
                 adapter, peer, backend>>

\* response.json() of listModels resolves: data.models (data.data) is missing, empty
\* or holds models
ProbeJsonResolves ==
  /\ probe.pc = "awaitJson"
  /\ \E models \in {"undefined", "empty", "some"} :
       probe' = IF models = "undefined" THEN CatchProbe(probe) ELSE Resolve(probe, models)
  /\ UNCHANGED <<stream, wire, pos, now, call, errs, providerRegistry, providerCache,
                 adapter, peer, backend>>

ProbeJsonRejects ==
  /\ probe.pc = "awaitJson"
  /\ probe' = CatchProbe(probe)
  /\ UNCHANGED <<stream, wire, pos, now, call, errs, providerRegistry, providerCache,
                 adapter, peer, backend>>

\* fetchVersion() gives null: its fetch rejected, answered with a non-OK status, or
\* its body was no JSON or held no version
VersionNull ==
  /\ probe.pc \in {"awaitVersion", "awaitVersionJson"}
  /\ probe.pc = "awaitVersion" => (probe.timer = "armed")
  /\ adapter' = VersionKnown(adapter, "null")
  /\ probe' = Resolve([probe EXCEPT !.timer = "cleared"], "true")
  /\ UNCHANGED <<stream, wire, pos, now, call, errs, providerRegistry, providerCache,
                 peer, backend>>

\* the fetch of fetchVersion() resolves with an OK status: clearTimeout(timeoutId)
VersionFetchResolves ==
  /\ probe.pc = "awaitVersion"
  /\ backend.up
  /\ probe' = [probe EXCEPT !.pc = "awaitVersionJson", !.timer = "cleared"]
  /\ UNCHANGED <<stream, wire, pos, now, call, errs, providerRegistry, providerCache,
                 adapter, peer, backend>>

\* response.json() of fetchVersion() resolves with a version: the backend's, or a
\* value that is no string, on which compareVersions throws
VersionJsonResolves ==
  /\ probe.pc = "awaitVersionJson"
  /\ \E isString \in BOOLEAN :
       IF isString
       THEN /\ adapter' = VersionKnown(adapter, backend.version)
            /\ probe' = Resolve(probe, "true")
       ELSE /\ adapter' = [adapter EXCEPT !.version = "number"]
            /\ probe' = CatchProbe(probe)
  /\ UNCHANGED <<stream, wire, pos, now, call, errs, providerRegistry, providerCache,
                 peer, backend>>

\* 5000 ms pass with the operation waiting for the backend: the timer, if still
\* armed, calls controller.abort() and the fetch rejects with AbortError
ProbeTimeoutElapses ==
  /\ probe.pc \in {"awaitFetch", "awaitJson", "awaitVersion", "awaitVersionJson"}
  /\ ~probe.elapsed
  /\ IF probe.timer = "armed" /\ probe.pc = "awaitVersion"
     THEN /\ adapter' = VersionKnown(adapter, "null")
          /\ probe' = Resolve([probe EXCEPT !.elapsed = TRUE], "true")
     ELSE /\ adapter' = adapter
          /\ probe' = IF probe.timer = "armed"
                      THEN CatchProbe([probe EXCEPT !.elapsed = TRUE])
                      ELSE [probe EXCEPT !.elapsed = TRUE]
  /\ UNCHANGED <<stream, wire, pos, now, call, errs, providerRegistry, providerCache,
                 peer, backend>>

\* client.models.list() of the vendor's client library resolves
ProbeSdkResolves ==
  /\ probe.pc = "awaitSdk"
  /\ backend.up
  /\ \E models \in {"empty", "some"} :
       probe' = IF probe.op = "isAvailable" THEN Resolve(probe, "true")
                ELSE Resolve(probe, models)
  /\ UNCHANGED <<stream, wire, pos, now, call, errs, providerRegistry, providerCache,
                 adapter, peer, backend>>

\* client.models.list() rejects: isAvailable catches, listModels throws handleError's
\* error
ProbeSdkRejects ==
  /\ probe.pc = "awaitSdk"
  /\ \E error \in {"RateLimitError", "MissingApiKeyError", "TimeoutError",
                   "ProviderRequestError"} :
       probe' = IF probe.op = "isAvailable" THEN Resolve(probe, "false")
                ELSE Fail(probe, error)
  /\ UNCHANGED <<stream, wire, pos, now, call, errs, providerRegistry, providerCache,
                 adapter, peer, backend>>

\* the requests made on the instance: with tools or without
InstanceRequest(tools) ==
  [model |-> <<"gpt">>, provider |-> <<>>, api_key |-> FALSE,
   badArguments |-> FALSE, messages |-> "valid", tools |-> tools]

\* provider.completion(request), up to its first await
CompletionOn(provider, request) ==
  AdapterCompletion(NewCall("instance", provider.kind, request, NoConfig, FALSE),
                    provider, request)

\* completion(request) is called on the instance
Completion ==
  /\ call.pc \in {"idle", "done", "failed"}
  /\ adapter.kind # "base"
  /\ \E tools \in BOOLEAN : call' = CompletionOn(adapter, InstanceRequest(tools))
  /\ UNCHANGED <<stream, wire, pos, now, errs, providerRegistry, providerCache,
                 adapter, probe, peer, backend>>

\* the call runs on: the backend answers the chat request only while it is reachable
CallRuns ==
  \/ backend.up /\ (CallFetchResolves \/ CallSdkResolves)
  \/ CallFetchRejects
  \/ CallBodyResolves
  \/ CallBodyRejects
  \/ CallErrorBody
  \/ CallTimeoutElapses
  \/ CallSdkRejects

NextAdapter ==
  \/ IsAvailable
  \/ ListModels
  \/ ProbeFetchResolves
  \/ ProbeFetchRejects
  \/ ProbeJsonResolves
  \/ ProbeJsonRejects
  \/ VersionNull
  \/ VersionFetchResolves
  \/ VersionJsonResolves
  \/ ProbeTimeoutElapses
  \/ ProbeSdkResolves
  \/ ProbeSdkRejects
  \/ Completion
  \/ CallRuns

\* the instances a caller can construct, with or without a key
Kept(provider, antKey) ==
  [kind |-> provider.kind, apiKey |-> provider.apiKey, timeout |-> provider.timeout,
   version |-> provider.version, toolsSupported |-> provider.toolsSupported,
   antKey |-> antKey]

Instances ==
  {Kept(Construct(c[1], [NoConfig EXCEPT !.apiKey = c[2]], FALSE).value, c[2] /\ c[3]) :
     c \in {d \in (Adapters \cup {"base"}) \X BOOLEAN \X BOOLEAN :
              Construct(d[1], [NoConfig EXCEPT !.apiKey = d[2]], FALSE).ok}}

InitAdapter ==
  /\ stream = NoStream
  /\ wire = <<>>
  /\ pos = 0
  /\ now = 0
  /\ call = NoCall
  /\ errs = NoErrs
  /\ providerRegistry = BuiltinProviders
  /\ providerCache = NoCache
  /\ probe = NoProbe
  /\ peer = NoPeer
  /\ adapter \in Instances
  /\ backend \in [up : BOOLEAN, version : BackendVersions]

SpecAdapter == InitAdapter /\ [][NextAdapter]_vars


\* C21: isAvailable never throws: for every adapter and every behaviour of the backend
\* it resolves to a boolean, once its 5000 ms have passed it has resolved, and it
\* resolves to false when the backend is unreachable.
C21_IsAvailableNeverThrows ==
  probe.op = "isAvailable" =>
    /\ probe.pc # "failed"
    /\ probe.pc = "done" => probe.result \in {"true", "false"}
    /\ probe.elapsed => probe.pc = "done"
    /\ (probe.pc = "done" /\ ~backend.up) => probe.result = "false"

\* C22: listModels on an adapter whose SUPPORTS_LIST_MODELS is false returns an empty
\* list without error; a non-empty list implies the flag is true.
C22_ListModelsFollowsFlag ==
  (probe.op = "listModels" /\ probe.pc \in {"done", "failed"}) =>
    /\ ~SUPPORTS_LIST_MODELS(adapter.kind) => (probe.pc = "done" /\ probe.result = "empty")
    /\ (probe.pc = "done" /\ probe.result = "some") => SUPPORTS_LIST_MODELS(adapter.kind)


\* the backend's version is below MINIMUM_TOOL_VERSION
OldBackend == compareVersions(backend.version, MINIMUM_TOOL_VERSION) < 0

\* a completion with tools has been called on the Ollama instance
ToolsCall == call.pc # "idle" /\ call.kind = "ollama" /\ call.request.tools

\* C28: a request with tools on an Ollama adapter whose backend is older than 0.3.0
\* fails with ProviderRequestError before any chat request is sent, whether or not
\* isAvailable ran on the instance before.
C28_OldBackendRejectsTools ==
  (ToolsCall /\ OldBackend) =>
    /\ call.pc = "failed"
    /\ call.error = "ProviderRequestError"
    /\ ~NetworkCalled

\* the instance as its constructor left it
Fresh(a) == [a EXCEPT !.version = "null", !.toolsSupported = "null"]

\* C29: the outcome of a completion on an instance depends on the request and the
\* backend only: whatever ran on the instance before, or is still running, the call
\* goes the way it goes on the instance as constructed.
C29_ReuseIsHistoryIndependent ==
  adapter.kind # "base" =>
    \A tools \in BOOLEAN :
      CompletionOn(adapter, InstanceRequest(tools))
        = CompletionOn(Fresh(adapter), InstanceRequest(tools))


\* the finish reasons of a Choice
FinishReasons == {"stop", "length", "tool_calls", "content_filter"}

\* C23: for every backend response converted by an adapter's convertResponse the
\* choice's finish_reason is one of stop, length, tool_calls, content_filter: never
\* null, never a value of the backend outside the set.
C23_FinishReasonRange ==
  call.pc = "done" => call.result.finish_reason \in FinishReasons

\* C24: whenever the converted message carries a tool call, finish_reason is
\* tool_calls, whatever stop signal the backend reported.
C24_ToolCallPriority ==
  (call.pc = "done" /\ call.result.tool_calls > 0) =>
    call.result.finish_reason = "tool_calls"


(***************************************************************************)
(* Streams that end: text frames, tool-call frames and terminal frames of  *)
(* each wire format, up to MaxFrames segments in any order.                *)
(***************************************************************************)
MaxFrames == 3

EndingSegments(kind) ==
  CASE kind = "anthropic" -> SseLines({"a_tool", "a_stop", "a_text", "a_end"})
    [] kind = "ollama" ->
         {JsonLine(ev, FALSE) :
            ev \in {"o_text", "o_tool", "o_tooldone", "o_empty", "o_done"}}
    [] OTHER -> SseLines({"s_text", "s_role", "s_stop"}) \cup {<<DoneText(TRUE)>>}

InitEnding ==
  /\ \E kind \in {"ollama", "anthropic", "llamafile"} :
       /\ stream = NewStream(kind, "adapter")
       /\ wire \in {Flatten(ls) :
                      ls \in UNION {[1..n -> EndingSegments(kind)] : n \in 0..MaxFrames}}
  /\ pos = 0
  /\ now = 0
  /\ call = NoCall
  /\ errs = NoErrs
  /\ providerRegistry = BuiltinProviders
  /\ providerCache = NoCache
  /\ adapter = NoAdapter
  /\ probe = NoProbe
  /\ peer = NoPeer
  /\ backend = NoBackend

SpecEnding == InitEnding /\ [][Next]_vars

\* the chunk closes its choice
Terminal(c) == c.finish_reason # "null"

\* a tool call was emitted before the i-th chunk of the stream
ToolCallBefore(i) == \E j \in 1..(i - 1) : stream.out[j].delta.tool_calls # <<>>

\* C25: the chunk emitted on terminal completion has delta {} and a finish_reason in
\* which tool-call completion outranks a generic stop: tool_calls if a tool call was
\* emitted earlier in the stream, even when the terminal frame says stop.
C25_TerminalChunk ==
  \A i \in 1..Len(stream.out) :
    Terminal(stream.out[i]) =>
      /\ stream.out[i].delta = EmptyDelta
      /\ ToolCallBefore(i) => stream.out[i].finish_reason = "tool_calls"

\* C26: within one stream at most one emitted chunk has a non-null finish_reason, and
\* no chunk is emitted after it, whatever frames the backend sends.
C26_FinishIsTerminal ==
  \A i \in 1..Len(stream.out) : Terminal(stream.out[i]) => i = Len(stream.out)


\* the text a backend segment carries in the stream's wire format: empty when the
\* segment does not parse or has no text
TextOf(kind, line) ==
  IF kind = "ollama"
  THEN (IF IsJson(line) THEN JSONparse(line).text ELSE <<>>)
  ELSE (IF StartsWithData(line) /\ IsJson(Slice6(line))
        THEN JSONparse(Slice6(line)).text ELSE <<>>)

\* the segments up to the [DONE] sentinel that ends a stream
RECURSIVE UntilDone(_)
UntilDone(ls) ==
  IF ls = <<>> \/ Head(ls) = <<DoneText(TRUE)>> THEN <<>>
  ELSE <<Head(ls)>> \o UntilDone(Tail(ls))

\* delta and finish_reason of a chunk
Shown(c) == [delta |-> c.delta, finish_reason |-> c.finish_reason]

HasContent(c) == c.delta.hasContent

\* the content chunks emitted, in order
ContentChunks == LET cs == SelectSeq(stream.out, HasContent)
                 IN [i \in 1..Len(cs) |-> Shown(cs[i])]

\* one chunk {content: text}, finish_reason null, for each segment that carries text
RECURSIVE ContentExpected(_, _)
ContentExpected(kind, ls) ==
  IF ls = <<>> THEN <<>>
  ELSE (IF TextOf(kind, Head(ls)) # <<>>
        THEN <<[delta |-> Delta("", TRUE, TextOf(kind, Head(ls)), <<>>),
                finish_reason |-> "null"]>>
        ELSE <<>>) \o ContentExpected(kind, Tail(ls))

RECURSIVE ContentOf(_)
ContentOf(cs) == IF cs = <<>> THEN <<>> ELSE Head(cs).delta.content \o ContentOf(Tail(cs))

RECURSIVE TextsOf(_, _)
TextsOf(kind, ls) ==
  IF ls = <<>> THEN <<>> ELSE TextOf(kind, Head(ls)) \o TextsOf(kind, Tail(ls))

\* the concatenation of the emitted content is the concatenation of the backend's texts
ContentConcatenated ==
  (Reading /\ Settled) =>
    ContentOf(stream.out) = TextsOf(stream.kind, UntilDone(DeliveredLines))

\* C27: for every segment that carries text the decoder emits one chunk whose delta is
\* exactly {content: text} with finish_reason null, in arrival order, and a segment
\* with no text emits no content chunk.
C27_ContentChunks ==
  (Reading /\ Settled) =>
    ContentChunks = ContentExpected(stream.kind, UntilDone(DeliveredLines))


(***************************************************************************)
(* Two streams decoded at once: stream, and a second call of               *)
(* completionStream whose generator (peer.s), wire (peer.wire) and         *)
(* delivered bytes (peer.pos) are its own.  The frames of the two and the  *)
(* next() calls of their consumers interleave in any order.                *)
(***************************************************************************)
\* locals declared in the other call's scope as well
LocalsShared(own, other) ==
  [own EXCEPT !.buffer = other.buffer, !.currentToolUse = other.currentToolUse]

\* let buffer = ''; let currentToolUse = null: what a generator works on are the
\* locals of its own call, whatever other calls are in progress
Locals(own, other) == own

\* the generator of the second stream, as it runs
Mine == Locals(peer.s, stream)

PeerFirstNext ==
  /\ peer.s.pc = "start"
  /\ \E request \in [model : {<<"gpt">>}, provider : {<<>>}, api_key : {FALSE},
                     badArguments : BOOLEAN, tools : {FALSE}] :
       peer' = [peer EXCEPT !.s = AdapterCompletionStream(Mine,
                        [kind |-> peer.s.kind, apiKey |-> TRUE, timeout |-> 0,
                         version |-> "null", toolsSupported |-> "null"], request)]
  /\ UNCHANGED <<stream, wire, pos, now, call, errs, providerRegistry, providerCache,
                 adapter, probe, backend>>

PeerConsumerNext ==
  /\ peer.s.pc = "yielded"
  /\ \E t \in Times : \E s1 \in {RunLines(Resume(Mine), t)} :
       /\ peer' = [peer EXCEPT !.s = s1]
       /\ now' = IF ReadClock(peer.s, s1) THEN t ELSE now
  /\ UNCHANGED <<stream, wire, pos, call, errs, providerRegistry, providerCache,
                 adapter, probe, backend>>

PeerFetchResolves ==
  /\ peer.s.pc = "awaitFetch"
  /\ \E status \in {200, 500}, body \in BOOLEAN, t \in Times :
       IF status # 200 THEN
         /\ peer' = [peer EXCEPT !.s = Throw(Mine, ErrorResponse(peer.s.kind, status))]
         /\ now' = now
       ELSE IF ~body THEN
         /\ peer' = [peer EXCEPT !.s = Throw(Mine, "ProviderRequestError")]
         /\ now' = now
       ELSE
         /\ peer' = [peer EXCEPT !.s = AwaitRead([Mine EXCEPT !.late = FALSE,
                        !.id = IF peer.s.kind = "ollama" THEN <<"ollama", t>> ELSE NoId])]
         /\ now' = IF peer.s.kind = "ollama" THEN t ELSE now
  /\ UNCHANGED <<stream, wire, pos, call, errs, providerRegistry, providerCache,
                 adapter, probe, backend>>

PeerFetchRejects ==
  /\ peer.s.pc = "awaitFetch"
  /\ peer' = [peer EXCEPT !.s = Throw(Mine, "TypeError")]
  /\ UNCHANGED <<stream, wire, pos, now, call, errs, providerRegistry, providerCache,
                 adapter, probe, backend>>

PeerReadResolves ==
  /\ peer.s.pc = "awaitRead"
  /\ \E n \in 1..(Len(peer.wire) - peer.pos), t \in Times :
       \E s1 \in {RunLines(Feed(Mine, SubSeq(peer.wire, peer.pos + 1, peer.pos + n)), t)} :
          /\ peer' = [peer EXCEPT !.s = s1, !.pos = peer.pos + n]
          /\ now' = IF ReadClock(peer.s, s1) THEN t ELSE now
  /\ UNCHANGED <<stream, wire, pos, call, errs, providerRegistry, providerCache,
                 adapter, probe, backend>>

PeerReadDone ==
  /\ peer.s.pc = "awaitRead"
  /\ peer' = [peer EXCEPT !.s = Finally([Mine EXCEPT !.pc = "done", !.late = FALSE])]
  /\ UNCHANGED <<stream, wire, pos, now, call, errs, providerRegistry, providerCache,
                 adapter, probe, backend>>

PeerReadRejects ==
  /\ peer.s.pc = "awaitRead"
  /\ peer' = [peer EXCEPT !.s = Finally(Throw(Mine, "TypeError"))]
  /\ UNCHANGED <<stream, wire, pos, now, call, errs, providerRegistry, providerCache,
                 adapter, probe, backend>>

PeerConsumerReturn ==
  /\ peer.s.pc = "yielded"
  /\ peer' = [peer EXCEPT !.s = Finally([Mine EXCEPT !.pc = "done", !.abandoned = TRUE])]
  /\ UNCHANGED <<stream, wire, pos, now, call, errs, providerRegistry, providerCache,
                 adapter, probe, backend>>

NextPair ==
  \/ ConsumerFirstNext
  \/ ConsumerNext
  \/ FetchResolves
  \/ FetchRejects
  \/ ReadResolves
  \/ ReadDone
  \/ ReadRejects
  \/ ConsumerReturn
  \/ PeerFirstNext
  \/ PeerConsumerNext
  \/ PeerFetchResolves
  \/ PeerFetchRejects
  \/ PeerReadResolves
  \/ PeerReadDone
  \/ PeerReadRejects
  \/ PeerConsumerReturn

\* what the backend of each of the two streams sends
PairWires(kind) ==
  IF kind = "anthropic"
  THEN {Flatten(<<JsonLine("a_tool", TRUE), JsonLine("a_frag1", TRUE),
                  JsonLine("a_stop", TRUE)>>),
        Flatten(<<JsonLine("a_tool2", TRUE), JsonLine("a_frag2", TRUE),
                  JsonLine("a_stop", TRUE)>>)}
  ELSE {Flatten(<<JsonLine("o_text", FALSE)>>),
        Flatten(<<JsonLine("o_text2", FALSE), JsonLine("o_done", FALSE)>>)}

InitPair ==
  /\ \E kind \in {"anthropic", "ollama"} :
       /\ stream = NewStream(kind, "adapter")
       /\ wire \in PairWires(kind)
  /\ \E kind \in {"anthropic", "ollama"} :
       peer \in [s : {NewStream(kind, "adapter")}, wire : PairWires(kind), pos : {0}]
  /\ pos = 0
  /\ now = 0
  /\ call = NoCall
  /\ errs = NoErrs
  /\ providerRegistry = BuiltinProviders
  /\ providerCache = NoCache
  /\ adapter = NoAdapter
  /\ probe = NoProbe
  /\ backend = NoBackend

SpecPair == InitPair /\ [][NextPair]_vars

\* the chunks of a generator of this kind decoding the segments alone
DecodedAlone(s, ls) == DecodeLines([NewStream(s.kind, s.entry) EXCEPT !.id = s.id], ls)

\* the segments delivered to the second stream
PeerLines == Complete(Split(SubSeq(peer.wire, 1, peer.pos)))

\* the generator has gone through every segment it was given
SettledGenerator(s) == s.pc \in {"awaitRead", "done", "failed"} /\ ~s.abandoned

\* the generator's chunks are those of its own segments decoded alone
AsAlone(s, ls) ==
  s.pc \in {"awaitRead", "yielded", "done", "failed"} =>
    /\ IsPrefix(UntimedAll(s.out), DecodedAlone(s, ls))
    /\ SettledGenerator(s) => UntimedAll(s.out) = DecodedAlone(s, ls)

\* C30: two streams decoded with their frames and their consumers' requests
\* interleaved in any order each emit the chunks they emit when decoded alone: the
\* buffer and the tool-call accumulator of one are never those of the other.
C30_StreamsIndependent ==
  /\ AsAlone(stream, DeliveredLines)
  /\ AsAlone(peer.s, PeerLines)

\* both streams are in the middle of a tool call, each with a partial segment in its
\* buffer and fragments in its accumulator
C30_Witness ==
  /\ stream.pc = "awaitRead" /\ peer.s.pc = "awaitRead"
  /\ stream.buffer # <<>> /\ peer.s.buffer # <<>>
  /\ stream.currentToolUse.active /\ peer.s.currentToolUse.active
  /\ stream.currentToolUse.arguments # <<>>
  /\ peer.s.currentToolUse.arguments # <<>>
  /\ stream.currentToolUse.arguments # peer.s.currentToolUse.arguments


\* C31: the decoder asks the source for a frame only while the consumer waits for a
\* chunk and the generator holds no segment it has not gone through; a step gives the
\* consumer one chunk at most and the generator then stays suspended at its yield,
\* where nothing is read.
C31_LazyProduction ==
  [][ /\ pos' # pos => (stream.pc = "awaitRead" /\ stream.lines = <<>>)
      /\ Len(stream'.out) > Len(stream.out) =>
           (stream'.pc = "yielded" /\ Len(stream'.out) = Len(stream.out) + 1)
      /\ stream'.pc = "awaitRead" => stream'.lines = <<>> ]_vars

\* a chunk is with the consumer while the generator holds a further segment and the
\* source has bytes it was not asked for
C31_Witness ==
  /\ stream.pc = "yielded"
  /\ stream.lines # <<>>
  /\ pos < Len(wire)


\* new AnthropicProvider(config) was called with no key in the configuration or in
\* the environment
KeylessAnthropic ==
  /\ call.pc # "start"
  /\ call.entry = "adapter"
  /\ call.kind = "anthropic"
  /\ ~call.config.apiKey /\ ~call.env

\* C32: constructing an AnthropicProvider with no API key in its configuration or in
\* the environment does not throw (and isAvailable() on the instance resolves to
\* false).
C32_KeylessAnthropicConstructs ==
  KeylessAnthropic =>
    /\ Construct(call.kind, call.config, call.env).ok
    /\ ~(call.pc = "failed" /\ call.error = "Error")


(***************************************************************************)
(* checkProvider(provider, config) of api.ts: call is the call, adapter    *)
(* the instance it creates, probe the isAvailable() and then the           *)
(* listModels() it awaits on that instance.                                *)
(***************************************************************************)
NewCheck(name, config, antKey) ==
  [ pc |-> "start", entry |-> "checkProvider", name |-> name, config |-> config,
    antKey |-> antKey, created |-> FALSE, listed |-> FALSE,
    provider |-> <<>>, available |-> FALSE, models |-> "undefined", error |-> "" ]

\* a condition under which the models are always asked for
ModelsWantedAlways(available, a) == TRUE

\* if (available && instance.SUPPORTS_LIST_MODELS)
ModelsWanted(available, a) == available /\ SUPPORTS_LIST_MODELS(a.kind)

\* return { provider, available, models }
CheckReturns(c, available, models) ==
  [c EXCEPT !.pc = "done", !.provider = <<adapter.kind>>, !.available = available,
            !.models = models]

\* catch (error): return { provider: provider.toLowerCase(), available: false, error }
CheckCatches(c, error) ==
  [c EXCEPT !.pc = "done", !.provider = toLowerCase(c.name), !.available = FALSE,
            !.error = error]

\* checkProvider is called: createProvider, then isAvailable() up to its first await
CheckProvider ==
  /\ call.pc = "start"
  /\ LET created == createProvider(call.name, call.config, FALSE, FALSE) IN
     IF ~created.ok
     THEN /\ call' = CheckCatches(call, created.error)
          /\ UNCHANGED <<adapter, probe>>
     ELSE /\ adapter' = Kept(created.value, call.config.apiKey /\ call.antKey)
          /\ probe' = isAvailable(adapter')
          /\ call' = [call EXCEPT !.pc = "isAvailable", !.created = TRUE]
  /\ UNCHANGED <<stream, wire, pos, now, errs, providerRegistry, providerCache, peer, backend>>

\* await instance.isAvailable() is over
CheckAvailable ==
  /\ call.pc = "isAvailable"
  /\ probe.pc \in {"done", "failed"}
  /\ IF probe.pc = "failed"
     THEN /\ call' = CheckCatches(call, probe.error)
          /\ probe' = probe
     ELSE IF ModelsWanted(probe.result = "true", adapter)
     THEN /\ call' = [call EXCEPT !.pc = "listModels", !.listed = TRUE,
                                  !.available = (probe.result = "true")]
          /\ probe' = listModels(adapter)
     ELSE /\ call' = CheckReturns(call, probe.result = "true", "undefined")
          /\ probe' = probe
  /\ UNCHANGED adapter
  /\ UNCHANGED <<stream, wire, pos, now, errs, providerRegistry, providerCache, peer, backend>>

\* await instance.listModels() is over: catch { /* Ignore model listing errors */ }
CheckModels ==
  /\ call.pc = "listModels"
  /\ probe.pc \in {"done", "failed"}
  /\ call' = CheckReturns(call, call.available,
                          IF probe.pc = "done" THEN probe.result ELSE "undefined")
  /\ UNCHANGED <<adapter, probe>>
  /\ UNCHANGED <<stream, wire, pos, now, errs, providerRegistry, providerCache, peer, backend>>

NextCheck ==
  \/ CheckProvider
  \/ CheckAvailable
  \/ CheckModels
  \/ ProbeFetchResolves
  \/ ProbeFetchRejects
  \/ ProbeJsonResolves
  \/ ProbeJsonRejects
  \/ VersionNull
  \/ VersionFetchResolves
  \/ VersionJsonResolves
  \/ ProbeTimeoutElapses
  \/ ProbeSdkResolves
  \/ ProbeSdkRejects

\* the names checkProvider is called with: registered ones, in any casing, and one
\* that is not registered
CheckNames == {<<"ollama">>, <<"Anthropic">>, <<"openai">>, <<"llamafile">>, <<"mistral">>}

InitCheck ==
  /\ stream = NoStream
  /\ wire = <<>>
  /\ pos = 0
  /\ now = 0
  /\ call \in {NewCheck(name, [NoConfig EXCEPT !.apiKey = key], antKey) :
                 name \in CheckNames, key \in BOOLEAN, antKey \in BOOLEAN}
  /\ errs = NoErrs
  /\ providerRegistry = BuiltinProviders
  /\ providerCache = NoCache
  /\ adapter = NoAdapter
  /\ probe = NoProbe
  /\ peer = NoPeer
  /\ backend \in [up : BOOLEAN, version : BackendVersions]

SpecCheck == InitCheck /\ [][NextCheck]_vars

\* C33: checkProvider never rejects; for an unregistered provider or a failing
\* construction it resolves to {available: false, error}; a failure of listModels is
\* swallowed and leaves available as isAvailable gave it; the models are asked for only
\* when the adapter is available and declares SUPPORTS_LIST_MODELS.
C33_CheckProviderNeverRejects ==
  /\ call.pc \in {"start", "isAvailable", "listModels", "done"}
  /\ (call.pc = "done" /\ ~call.created) => (~call.available /\ call.error # "")
  /\ call.listed => (call.available /\ SUPPORTS_LIST_MODELS(adapter.kind))
  /\ (call.pc = "done" /\ call.listed /\ probe.pc = "failed") =>
       (call.available /\ call.models = "undefined" /\ call.error = "")

\* listModels failed inside a checkProvider that resolved with available true
C33_Witness ==
  /\ call.pc = "done"
  /\ call.listed
  /\ probe.op = "listModels" /\ probe.pc = "failed"
  /\ call.available


(***************************************************************************)
(* Request conversion: the backend request an adapter builds from a        *)
(* canonical request, in completion and in completionStream.  A field the  *)
(* request does not set, or the backend request does not get, is "absent". *)
(***************************************************************************)
MaxTools == 2

\* a tool definition: description is optional
Tool(name, hasDescription, description, parameters) ==
  [name |-> name, hasDescription |-> hasDescription, description |-> description,
   parameters |-> parameters]

ToolDefs ==
  {Tool(name, FALSE, "", parameters) : name \in {"f", "g"}, parameters \in {"obj1", "obj2"}}
    \cup {Tool(name, TRUE, description, parameters) :
            name \in {"f", "g"}, description \in {"", "d"}, parameters \in {"obj1", "obj2"}}

ToolLists == UNION {[1..n -> ToolDefs] : n \in 0..MaxTools}

\* the entry of tools.map(tool => ...) in convertTools of each adapter
convertTool(kind, tool) ==
  CASE kind = "anthropic" ->
         [name |-> tool.name, hasDescription |-> tool.hasDescription,
          description |-> tool.description, input_schema |-> tool.parameters]
    [] kind = "ollama" ->
         [type |-> "function",
          function |-> [name |-> tool.name, hasDescription |-> TRUE,
                        description |-> IF tool.hasDescription THEN tool.description ELSE "",
                        parameters |-> tool.parameters]]
    [] OTHER ->
         [type |-> "function",
          function |-> [name |-> tool.name, hasDescription |-> tool.hasDescription,
                        description |-> tool.description, parameters |-> tool.parameters]]

convertTools(kind, tools) == [i \in 1..Len(tools) |-> convertTool(kind, tools[i])]

\* convertToolChoice of the Anthropic adapter
convertToolChoice(choice) ==
  CASE choice = "auto" -> "type:auto"
    [] choice = "required" -> "type:any"
    [] OTHER -> "absent"

\* Array.isArray(request.stop) ? request.stop : [request.stop]
StopList(stop) == IF stop = "s" THEN "[s]" ELSE stop

Sent(str, tools, tool_choice, temperature, top_p, max_tokens, stop, seed) ==
  [stream |-> str, tools |-> tools, tool_choice |-> tool_choice,
   temperature |-> temperature, top_p |-> top_p, max_tokens |-> max_tokens,
   stop |-> stop, seed |-> seed]

\* the backend request of completion (str FALSE) and of completionStream (str TRUE)
RequestBuilt(kind, r, str) ==
  LET tools == convertTools(kind, r.tools) IN
  CASE kind = "ollama" ->
         Sent(str, tools, "absent", r.temperature, r.top_p, r.max_tokens,
              IF ~str /\ r.stop # "absent" THEN StopList(r.stop) ELSE "absent",
              IF ~str THEN r.seed ELSE "absent")
    [] kind = "anthropic" ->
         Sent(str, tools,
              IF r.tool_choice # "absent" THEN convertToolChoice(r.tool_choice) ELSE "absent",
              r.temperature, r.top_p,
              IF r.max_tokens # "absent" THEN r.max_tokens ELSE "4096",
              IF ~str /\ r.stop # "absent" THEN StopList(r.stop) ELSE "absent", "absent")
    [] kind = "openai" ->
         Sent(str, tools, r.tool_choice, r.temperature, r.top_p, r.max_tokens,
              IF ~str THEN r.stop ELSE "absent", IF ~str THEN r.seed ELSE "absent")
    [] OTHER ->
         Sent(str, tools, "absent", r.temperature, "absent", r.max_tokens,
              "absent", "absent")

NoSent == Sent(FALSE, <<>>, "", "", "", "", "", "")

\* the optional parameters of a request: none, all, or one of them
RequestOptions ==
  {[tool_choice |-> c, temperature |-> t, top_p |-> p, max_tokens |-> m, stop |-> st,
    seed |-> sd] :
     c \in {"absent", "auto"}, t \in {"absent", "0.5"}, p \in {"absent", "0.9"},
     m \in {"absent", "30"}, st \in {"absent", "s"}, sd \in {"absent", "7"}}

FewOptions ==
  {o \in RequestOptions :
     \/ \A k \in DOMAIN o : o[k] # "absent"
     \/ \E k \in DOMAIN o : \A j \in DOMAIN o \ {k} : o[j] = "absent"}
    \cup {[tool_choice |-> c, temperature |-> "absent", top_p |-> "absent",
           max_tokens |-> "absent", stop |-> st, seed |-> "absent"] :
            c \in {"required", "none"}, st \in {"[s]"}}

ConversionRequests ==
  {[tools |-> tools, tool_choice |-> o.tool_choice, temperature |-> o.temperature,
    top_p |-> o.top_p, max_tokens |-> o.max_tokens, stop |-> o.stop, seed |-> o.seed] :
     tools \in ToolLists, o \in FewOptions}

NewConversion(kind, request) ==
  [pc |-> "start", entry |-> "convert", kind |-> kind, request |-> request,
   sent |-> NoSent, streamed |-> NoSent, built |-> {}]

\* completion(request) builds its backend request
BuildCompletion ==
  /\ call.pc = "start"
  /\ "completion" \notin call.built
  /\ call' = [call EXCEPT !.sent = RequestBuilt(call.kind, call.request, FALSE),
                          !.built = @ \cup {"completion"}]
  /\ UNCHANGED <<stream, wire, pos, now, errs, providerRegistry, providerCache,
                 adapter, probe, peer, backend>>

\* completionStream(request) builds its backend request
BuildCompletionStream ==
  /\ call.pc = "start"
  /\ "completionStream" \notin call.built
  /\ call' = [call EXCEPT !.streamed = RequestBuilt(call.kind, call.request, TRUE),
                          !.built = @ \cup {"completionStream"}]
  /\ UNCHANGED <<stream, wire, pos, now, errs, providerRegistry, providerCache,
                 adapter, probe, peer, backend>>

NextConvert ==
  \/ BuildCompletion
  \/ BuildCompletionStream

InitConvert ==
  /\ stream = NoStream
  /\ wire = <<>>
  /\ pos = 0
  /\ now = 0
  /\ call \in {NewConversion(kind, request) :
                 kind \in Adapters, request \in ConversionRequests}
  /\ errs = NoErrs
  /\ providerRegistry = BuiltinProviders
  /\ providerCache = NoCache
  /\ adapter = NoAdapter
  /\ probe = NoProbe
  /\ peer = NoPeer
  /\ backend = NoBackend

SpecConvert == InitConvert /\ [][NextConvert]_vars

\* name, description and parameters of the definition a backend tool entry came from
EntryName(kind, e) == IF kind = "anthropic" THEN e.name ELSE e.function.name
EntryParameters(kind, e) ==
  IF kind = "anthropic" THEN e.input_schema ELSE e.function.parameters

\* the definition can be told from the entry: no other definition converts to it
Recoverable(kind, tool, e) ==
  /\ EntryName(kind, e) = tool.name
  /\ EntryParameters(kind, e) = tool.parameters
  /\ \A d \in ToolDefs : convertTool(kind, d) = e => d = tool

\* C34: the backend request has one tool entry per tool definition, in the same
\* order, from which name, description and parameters of the definition can be
\* recovered unchanged: an absent description stays absent.
C34_ToolRoundTrip ==
  "completion" \in call.built =>
    /\ Len(call.sent.tools) = Len(call.request.tools)
    /\ \A i \in 1..Len(call.request.tools) :
         Recoverable(call.kind, call.request.tools[i], call.sent.tools[i])

\* C37: the backend request built by completionStream is the one built by completion
\* but for the stream flag.
C37_StreamingConvertsAlike ==
  call.built = {"completion", "completionStream"} =>
    [call.streamed EXCEPT !.stream = FALSE] = call.sent


(***************************************************************************)
(* Two tool-use blocks in one Anthropic stream.  Every frame of a content  *)
(* block carries the block's index, which the decoder does not read; the   *)
(* frames of the two blocks arrive one block after the other or            *)
(* interleaved, each block's frames in their order.                        *)
(***************************************************************************)
\* event.index of a content-block frame
BlockIndex(ev) == IF ev \in {"a_tool2", "a_fragB", "a_stopB"} THEN 1 ELSE 0

BlockFrames(index) ==
  IF index = 0 THEN <<"a_tool", "a_frag1", "a_frag2", "a_stop">>
  ELSE <<"a_tool2", "a_fragB", "a_stopB">>

RECURSIVE Interleavings(_, _)
Interleavings(a, b) ==
  IF a = <<>> THEN {b}
  ELSE IF b = <<>> THEN {a}
  ELSE {<<Head(a)>> \o m : m \in Interleavings(Tail(a), b)}
         \cup {<<Head(b)>> \o m : m \in Interleavings(a, Tail(b))}

BlockWires ==
  {Flatten([i \in 1..Len(evs) |-> JsonLine(evs[i], TRUE)]) :
     evs \in Interleavings(BlockFrames(0), BlockFrames(1))}

InitBlocks ==
  /\ stream = NewStream("anthropic", "adapter")
  /\ wire \in BlockWires
  /\ pos = 0
  /\ now = 0
  /\ call = NoCall
  /\ errs = NoErrs
  /\ providerRegistry = BuiltinProviders
  /\ providerCache = NoCache
  /\ adapter = NoAdapter
  /\ probe = NoProbe
  /\ peer = NoPeer
  /\ backend = NoBackend

SpecBlocks == InitBlocks /\ [][Next]_vars

\* the delivered frames of the content block with the index
FrameOfBlock(index, line) ==
  StartsWithData(line) /\ IsJson(Slice6(line)) /\ BlockIndex(Slice6(line)[1].e) = index

StartOfBlock(index, line) == FrameOfBlock(index, line) /\ IsStartFrame(line)
FragmentOfBlock(index, line) == FrameOfBlock(index, line) /\ IsFragmentFrame(line)
StopOfBlock(index, line) == FrameOfBlock(index, line) /\ IsStopFrame(line)

\* the tool call of a block: the id and name of its start frame, its own fragments
ToolCallOfBlock(index) ==
  LET start == SelectSeq(DeliveredLines, LAMBDA l : StartOfBlock(index, l))[1]
  IN ToolCall(EventOfLine(start).blockId, EventOfLine(start).name,
              ConcatFragments(SelectSeq(DeliveredLines, LAMBDA l : FragmentOfBlock(index, l))))

BlockStopped(index) == \E i \in 1..Len(DeliveredLines) : StopOfBlock(index, DeliveredLines[i])

\* the two blocks were in progress at once: the second started before the first stopped
BlocksOverlap ==
  \E i, j \in 1..Len(DeliveredLines) :
    /\ i < j
    /\ \E k \in {0, 1} : /\ StartOfBlock(k, DeliveredLines[i])
                         /\ StartOfBlock(1 - k, DeliveredLines[j])
                         /\ \A m \in i..j : ~StopOfBlock(k, DeliveredLines[m])

\* C35: every tool-use block that started and stopped gives one chunk of its own, with
\* its own id, name and fragments, also when the two blocks are in progress at once:
\* no block is lost and no fragment goes to the other block.
C35_BlocksKeptApart ==
  Settled =>
    /\ \A k \in {0, 1} :
         BlockStopped(k) =>
           Len(SelectSeq(stream.out,
                         LAMBDA c : c.delta.tool_calls = <<ToolCallOfBlock(k)>>)) = 1
    /\ Len(SelectSeq(stream.out, CarriesToolCall))
         = Cardinality({k \in {0, 1} : BlockStopped(k)})

\* with one block after the other, each block gives its own chunk
C35_OneAfterTheOther == (Settled /\ ~BlocksOverlap) => C35_BlocksKeptApart


\* the generator holds the reader: it waits for a frame or is suspended at a yield
HoldsReader == stream.pc \in {"awaitRead", "yielded"}

\* C36: once the reader is acquired its lock is released exactly once, on every way
\* out: the input ends, the sentinel returns, the consumer abandons the stream, a read
\* fails.  Nothing is released while the generator holds the reader or before it has
\* acquired it.
C36_ReaderReleasedOnce ==
  /\ [](HoldsReader => stream.released = 0)
  /\ [][(HoldsReader /\ stream'.pc \in {"done", "failed"}) =>
          stream'.released = stream.released + 1]_vars
  /\ [][stream'.released # stream.released => HoldsReader]_vars

C36_Witness ==
  /\ stream.kind = "llamafile"
  /\ stream.pc = "done"
  /\ ~stream.abandoned
  /\ stream.lines # <<>>
  /\ stream.released = 1


\* the tool calls of the chunks, in the order they were emitted
RECURSIVE ToolCallsOf(_)
ToolCallsOf(cs) ==
  IF cs = <<>> THEN <<>> ELSE Head(cs).delta.tool_calls \o ToolCallsOf(Tail(cs))

Distinct(ids) == \A i, j \in 1..Len(ids) : i # j => ids[i] # ids[j]

IdsOf(tcs) == [i \in 1..Len(tcs) |-> tcs[i].id]

\* C38: the ids of the tool calls of one Ollama stream are pairwise distinct, supplied
\* by the backend or made as call_<i>.
C38_ToolCallIdsUnique ==
  stream.kind = "ollama" => Distinct(IdsOf(ToolCallsOf(stream.out)))

\* the ids of the tool calls of one frame are pairwise distinct
C38_WithinOneFrame ==
  stream.kind = "ollama" =>
    \A i \in 1..Len(stream.out) : Distinct(IdsOf(stream.out[i].delta.tool_calls))


(***************************************************************************)
(* The streams of the two server-sent-event decoders that know the [DONE]  *)
(* sentinel: Llamafile and the fetch-based OpenAI adapter.                 *)
(***************************************************************************)
SentinelSegments == SseLines({"s_text", "s_text2"}) \cup {<<DoneText(TRUE)>>}

InitSentinel ==
  /\ \E kind \in {"llamafile", "openai"} :
       /\ stream = NewStream(kind, "adapter")
       /\ wire \in {Flatten(ls) :
                      ls \in UNION {[1..n -> SentinelSegments] : n \in 0..MaxFrames}}
  /\ pos = 0
  /\ now = 0
  /\ call = NoCall
  /\ errs = NoErrs
  /\ providerRegistry = BuiltinProviders
  /\ providerCache = NoCache
  /\ adapter = NoAdapter
  /\ probe = NoProbe
  /\ peer = NoPeer
  /\ backend = NoBackend

SpecSentinel == InitSentinel /\ [][Next]_vars

\* the line data: [DONE]
IsSentinelLine(line) == StartsWithData(line) /\ Slice6(line) = <<DoneText(FALSE)>>

SentinelDelivered == \E i \in 1..Len(DeliveredLines) : IsSentinelLine(DeliveredLines[i])

\* the delivered lines that come before the first data: [DONE]
BeforeSentinel ==
  LET k == CHOOSE i \in 1..Len(DeliveredLines) :
             /\ IsSentinelLine(DeliveredLines[i])
             /\ \A j \in 1..(i - 1) : ~IsSentinelLine(DeliveredLines[j])
  IN SubSeq(DeliveredLines, 1, k - 1)

\* C39: once the line data: [DONE] has been delivered, the chunks are those of the
\* lines before it and no others, whatever lines follow it, the stream ends, and no
\* further frame is read from the source.
C39_SentinelEndsStream ==
  /\ []((Reading /\ SentinelDelivered) =>
          /\ stream.pc # "awaitRead"
          /\ IsPrefix(UntimedAll(stream.out), Decoded(BeforeSentinel))
          /\ Settled => (stream.pc = "done"
                           /\ UntimedAll(stream.out) = Decoded(BeforeSentinel)))
  /\ [][SentinelDelivered => pos' = pos]_vars

C39_Witness ==
  /\ stream.kind = "openai"
  /\ stream.pc = "done"
  /\ ~stream.abandoned
  /\ SentinelDelivered
  /\ Len(DeliveredLines) > Len(BeforeSentinel) + 1
  /\ Len(stream.out) = 1
  /\ stream.lines # <<>>


\* what is left after the last delimiter of the bytes delivered
UnterminatedTail == Pop(Split(Delivered))

\* a chunk that tells the end of the generation
Finishes(c) == c.finish_reason # "null"

\* the text is a whole frame that tells the end of the generation
TerminalText(kind, text) ==
  IF kind = "ollama" THEN IsJson(text) /\ JSONparse(text).done
  ELSE /\ StartsWithData(text) /\ IsJson(Slice6(text))
       /\ JSONparse(Slice6(text)).type = "message_delta"

\* C40: when the body ends, what is left in the buffer after the last delimiter is not
\* decoded: the end of the body emits no chunk, and the chunks of the ended stream are
\* those of the delimited segments alone, also when the tail is a whole terminal frame.
C40_TailDiscarded ==
  /\ [](stream.pc = "awaitRead" => stream.buffer = UnterminatedTail)
  /\ [][(stream.pc = "awaitRead" /\ pos' = pos /\ stream'.pc \in {"done", "failed"}) =>
          (stream'.out = stream.out /\ stream'.buffer = stream.buffer)]_vars
  /\ []((stream.pc = "done" /\ ~stream.abandoned) =>
          UntimedAll(stream.out) = Decoded(DeliveredLines))

C40_Witness ==
  /\ stream.pc = "done"
  /\ stream.kind \in {"ollama", "anthropic"}
  /\ stream.buffer = UnterminatedTail
  /\ TerminalText(stream.kind, stream.buffer)
  /\ stream.out # <<>>
  /\ \A i \in 1..Len(stream.out) : ~Finishes(stream.out[i])

=============================================================================
